---- MODULE Spec2Model ----
(***************************************************************************)
(* A model of parts of the moteus firmware:                                *)
(*   - FDCanMicroServer (src/unnamed/part_001): framing of replies onto    *)
(*     FDCAN frames and decoding of received identifiers;                  *)
(*   - the UART encoder sources Aksim2 (src/fw/aksim2.h) and CuiAmt21      *)
(*     (src/fw/clock_manager.h) on top of Stm32G4DmaUart and the           *)
(*     microsecond timer;                                                  *)
(*   - the AS5047 SPI encoder (src/unnamed/part_002) on Stm32Spi.          *)
(***************************************************************************)
EXTENDS Integers, Sequences, FiniteSets, TLC

VARIABLES
  \* ---- FDCanMicroServer ----
  can_prefix_,            \* uint32_t can_prefix_
  buf_,                   \* char buf_[64], as a sequence of 64 bytes
  current_read_header_,   \* TRUE when a read is pending (pointer non-null)
  read_header,            \* the caller's Header object filled in by Poll
  read_cb,                \* read-callback invocations made by the last Poll
  rx,                     \* the frame the last Poll took from the FDCAN
  can_reset_count_,       \* uint32_t can_reset_count_
  wr,                     \* arguments of the last AsyncWrite call
  tx,                     \* frames handed to FDCan::Send by the last AsyncWrite
  write_cb,               \* callback invocations made by the last AsyncWrite
  overrun,                \* bytes the last AsyncWrite stored past the end of buf_
  writes,                 \* number of AsyncWrite calls so far
  \* ---- UART encoders ----
  mode,                   \* aux::UartEncoder::Config::mode
  poll_rate_us,           \* aux::UartEncoder::Config::poll_rate_us
  t0,                     \* timer count when the model starts
  now_us,                 \* TIM_MST->CNT
  query_outstanding_,
  last_query_start_us_,
  buffer_,                \* uint8_t buffer_[]
  cndtr,                  \* rx_dma->CNDTR
  dma_en,                 \* rx_dma->CCR & DMA_CCR_EN
  enc_req,                \* the encoder has received a request byte
  wire,                   \* bytes the encoder has yet to put on the line
  status,                 \* aux::UartEncoder::Status
  ev,                     \* what the last ISR_Update call did
  \* ---- AS5047 on Stm32Spi ----
  spi_cs,                 \* the chip select output, *cs_
  spi_spe,                \* SPI_CR1_SPE
  spi_dr,                 \* the word the transfer leaves in spi->DR
  as5047,                 \* the last call of the AS5047 and what it returned
  \* ---- Stm32Index ----
  idx_pin,                \* level of the index pin
  exti_pr,                \* EXTI pending: ISR_Routine is due
  observed_,              \* std::atomic<bool> observed_
  idx_error,              \* error_ != aux::AuxError::kNone
  idx_status,             \* aux::Index::Status
  idx_pc,                 \* where ISR_Update stands
  idx_local,              \* old_raw and observed of the running ISR_Update
  idx_seen,               \* a callback has read the pin high since the last exchange
  idx_ev,                 \* what the last completed ISR_Update had before it
  \* ---- Stm32Quadrature ----
  q_hw,                   \* hwtimer_ != nullptr: hardware quadrature
  q_cpr,                  \* config_.cpr
  q_in,                   \* levels of the two pins, a | b << 1
  q_status,               \* aux::Quadrature::Status
  old_timer_cnt_,
  hw_cnt,                 \* hwtimer_->CNT
  q_steps,                \* calls made so far
  q_ev,                   \* the last call and what it started from
  \* ---- Stm32I2c ----
  valid_,
  mode_,                  \* Stm32I2c::Mode
  i2c_isr,                \* i2c_->ISR: TC, RXNE, TXE, NACKF, ARLO, BUSY
  i2c_start,              \* i2c_->CR2 & I2C_CR2_START
  i2c_rd,                 \* i2c_->CR2 & I2C_CR2_RD_WRN
  i2c_left,               \* bytes of CR2.NBYTES still to transfer
  i2c_bus,                \* what the controller is doing on the bus
  offset_,
  i2c_size,               \* rx_data_.size() or tx_data_.size()
  i2c_ev,                 \* the last driver call, what it met and returned
  \* ---- BldcServo ----
  servo_mode,             \* status.mode
  servo_fault,            \* status.fault, the latched fault code
  pwm,                    \* control.pwm, the three duties, in steps of d_min
  drv_enable,             \* level of the pre-driver enable pin
  drv_hiz,                \* TRUE when the pre-driver outputs are Hi-Z
  fault_cond,             \* the fault condition (driver fault pin) is present
  cmd_age,                \* control cycles since the last command
  cmd_timeout,            \* watchdog timeout of the last command, in cycles
  zv_age,                 \* control cycles spent in Zero-Velocity
  servo_ev,               \* the last step of the servo
  \* ---- a reader of the UART encoder's status slot ----
  rd_pc,                  \* where the reader stands
  rd_sample,              \* what it has read so far
  rd_commit,              \* the nonce in the slot when it read the value
  \* ---- GPIO outputs and the hard fault handler ----
  hw_family,              \* FamilyAndVersion::family
  gpio_odr,               \* per port, the pins whose output is high
  hf_pc                   \* where the processor is

\* ---- state of the further subsystems ----
VARIABLES nvic_en, die_pc, die_ms, die_ev, irq_ev
dieVars == <<nvic_en, die_pc, die_ms, die_ev, irq_ev>>
VARIABLES config_, state_, max_torque, pid_ev, pid_steps
pidVars == <<config_, state_, max_torque, pid_ev, pid_steps>>
VARIABLES tm, tm_in, tm_torque, tm_back, tm_pc
tmVars == <<tm, tm_in, tm_torque, tm_back, tm_pc>>
VARIABLES hsitrim, extra_trim_, icscr_trim, clk_cmd, clk_reply
clockVars == <<hsitrim, extra_trim_, icscr_trim, clk_cmd, clk_reply>>
VARIABLES shadow_start_, shadow_, shadow_bits_, flash_locked, flash_log,
          supplied, prog_last
flashVars == <<shadow_start_, shadow_, shadow_bits_, flash_locked, flash_log,
               supplied, prog_last>>
VARIABLES ma_regs, ma_out, ma_sticks, ma_opts, ma_ret, error_
ma732Vars == <<ma_regs, ma_out, ma_sticks, ma_opts, ma_ret, error_>>
VARIABLES exti_imr, entries_, irq_count, exti_nvic, instances, gi_ret, gi_ev
extiVars == <<exti_imr, entries_, irq_count, exti_nvic, instances, gi_ret, gi_ev>>
VARIABLES current_read_callback_, read_assert, rd_issued, rd_done, rd_last
rdVars == <<current_read_callback_, read_assert, rd_issued, rd_done, rd_last>>
VARIABLES queries, prev_start
uqVars == <<queries, prev_start>>
VARIABLES rx_stores
i2crxVars == <<rx_stores>>
VARIABLES tim_in, tim_prescaler, tim_result, tim_pc
timVars == <<tim_in, tim_prescaler, tim_result, tim_pc>>
VARIABLES any_adc_, adc_configs_, jsqr, aux_info, new_any_adc, aux_pc, aux_ev,
          aux_updates
auxadcVars == <<any_adc_, adc_configs_, jsqr, aux_info, new_any_adc, aux_pc, aux_ev,
                aux_updates>>
ext2Vars == <<dieVars, pidVars, tmVars, clockVars, flashVars, ma732Vars, extiVars,
             rdVars, uqVars, i2crxVars, timVars, auxadcVars>>
\* ---- end of state of the further subsystems ----
canVars == <<can_prefix_, buf_, current_read_header_, read_header, read_cb,
             rx, can_reset_count_, wr, tx, write_cb, overrun, writes>>
uartVars == <<mode, poll_rate_us, t0, now_us, query_outstanding_,
              last_query_start_us_, buffer_, cndtr, dma_en, enc_req, wire,
              status, ev>>
spiVars == <<spi_cs, spi_spe, spi_dr, as5047>>
indexVars == <<idx_pin, exti_pr, observed_, idx_error, idx_status, idx_pc,
               idx_local, idx_seen, idx_ev>>
quadVars == <<q_hw, q_cpr, q_in, q_status, old_timer_cnt_, hw_cnt, q_steps,
              q_ev>>
i2cVars == <<valid_, mode_, i2c_isr, i2c_start, i2c_rd, i2c_left, i2c_bus,
             offset_, i2c_size, i2c_ev>>
servoVars == <<servo_mode, servo_fault, pwm, drv_enable, drv_hiz, fault_cond,
               cmd_age, cmd_timeout, zv_age, servo_ev>>
readerVars == <<rd_pc, rd_sample, rd_commit>>
gpioVars == <<hw_family, gpio_odr, hf_pc>>
auxVars == <<spiVars, indexVars, quadVars, i2cVars, servoVars, readerVars,
             gpioVars, ext2Vars>>
notCanVars == <<uartVars, auxVars>>
notUartVars == <<canVars, auxVars>>
notSpiVars == <<canVars, uartVars, indexVars, quadVars, i2cVars,
   servoVars, readerVars, gpioVars, ext2Vars>>
notIndexVars == <<canVars, uartVars, spiVars, quadVars, i2cVars,
   servoVars, readerVars, gpioVars, ext2Vars>>
notQuadVars == <<canVars, uartVars, spiVars, indexVars, i2cVars,
   servoVars, readerVars, gpioVars, ext2Vars>>
notI2cVars == <<canVars, uartVars, spiVars, indexVars, quadVars,
   servoVars, readerVars, gpioVars, ext2Vars>>
notServoVars == <<canVars, uartVars, spiVars, indexVars, quadVars, i2cVars,
   readerVars, gpioVars, ext2Vars>>
notReaderVars == <<canVars, spiVars, indexVars, quadVars, i2cVars, servoVars,
   gpioVars, ext2Vars>>
notGpioVars == <<canVars, uartVars, spiVars, indexVars, quadVars, i2cVars,
   servoVars, readerVars, ext2Vars>>
vars == <<canVars, uartVars, auxVars>>
\* ---- frames of the further subsystems ----
notDieVars == <<canVars, uartVars, spiVars, indexVars, quadVars, i2cVars, servoVars,
    readerVars, pidVars, tmVars, clockVars, flashVars, ma732Vars,
    extiVars, rdVars, uqVars, i2crxVars, timVars, auxadcVars>>
notPidVars == <<canVars, uartVars, spiVars, indexVars, quadVars, i2cVars, servoVars,
    readerVars, gpioVars, dieVars, tmVars, clockVars, flashVars,
    ma732Vars, extiVars, rdVars, uqVars, i2crxVars, timVars, auxadcVars>>
notTmVars == <<canVars, uartVars, spiVars, indexVars, quadVars, i2cVars, servoVars,
    readerVars, gpioVars, dieVars, pidVars, clockVars, flashVars,
    ma732Vars, extiVars, rdVars, uqVars, i2crxVars, timVars, auxadcVars>>
notClockVars == <<canVars, uartVars, spiVars, indexVars, quadVars, i2cVars, servoVars,
    readerVars, gpioVars, dieVars, pidVars, tmVars, flashVars, ma732Vars,
    extiVars, rdVars, uqVars, i2crxVars, timVars, auxadcVars>>
notFlashVars == <<canVars, uartVars, spiVars, indexVars, quadVars, i2cVars, servoVars,
    readerVars, gpioVars, dieVars, pidVars, tmVars, clockVars, ma732Vars,
    extiVars, rdVars, uqVars, i2crxVars, timVars, auxadcVars>>
notMa732Vars == <<canVars, uartVars, spiVars, indexVars, quadVars, i2cVars, servoVars,
    readerVars, gpioVars, dieVars, pidVars, tmVars, clockVars, flashVars,
    extiVars, rdVars, uqVars, i2crxVars, timVars, auxadcVars>>
notExtiVars == <<canVars, uartVars, spiVars, indexVars, quadVars, i2cVars, servoVars,
    readerVars, gpioVars, dieVars, pidVars, tmVars, clockVars, flashVars,
    ma732Vars, rdVars, uqVars, i2crxVars, timVars, auxadcVars>>
notRdVars == <<uartVars, spiVars, indexVars, quadVars, i2cVars, servoVars,
    readerVars, gpioVars, dieVars, pidVars, tmVars, clockVars, flashVars,
    ma732Vars, extiVars, uqVars, i2crxVars, timVars, auxadcVars>>
notUqVars == <<canVars, spiVars, indexVars, quadVars, i2cVars, servoVars,
    readerVars, gpioVars, dieVars, pidVars, tmVars, clockVars, flashVars,
    ma732Vars, extiVars, rdVars, i2crxVars, timVars, auxadcVars>>
notI2crxVars == <<canVars, uartVars, spiVars, indexVars, quadVars, servoVars,
    readerVars, gpioVars, dieVars, pidVars, tmVars, clockVars, flashVars,
    ma732Vars, extiVars, rdVars, uqVars, timVars, auxadcVars>>
notTimVars == <<canVars, uartVars, spiVars, indexVars, quadVars, i2cVars, servoVars,
    readerVars, gpioVars, dieVars, pidVars, tmVars, clockVars, flashVars,
    ma732Vars, extiVars, rdVars, uqVars, i2crxVars, auxadcVars>>
notAuxadcVars == <<canVars, uartVars, spiVars, indexVars, quadVars, i2cVars, servoVars,
    readerVars, gpioVars, dieVars, pidVars, tmVars, clockVars, flashVars,
    ma732Vars, extiVars, rdVars, uqVars, i2crxVars, timVars>>
\* ---- end of frames of the further subsystems ----

(***************************************************************************)
(* Machine arithmetic                                                      *)
(***************************************************************************)
Pow2(n) == 2 ^ n
U16 == 65536
U8 == 256

RECURSIVE BitOr(_, _)
BitOr(a, b) ==
  IF a = 0 THEN b
  ELSE IF b = 0 THEN a
  ELSE (IF (a % 2 = 1) \/ (b % 2 = 1) THEN 1 ELSE 0)
       + 2 * BitOr(a \div 2, b \div 2)

RECURSIVE BitAnd(_, _)
BitAnd(a, b) ==
  IF a = 0 \/ b = 0 THEN 0
  ELSE (IF (a % 2 = 1) /\ (b % 2 = 1) THEN 1 ELSE 0)
       + 2 * BitAnd(a \div 2, b \div 2)

BitXor1(a, b) == (a + b) % 2

Shr(a, n) == a \div Pow2(n)
Bit(a, n) == (a \div Pow2(n)) % 2

\* A uint32_t is held as its two 16 bit halves <<high, low>>, so that every
\* 32 bit value and the wrap at 2^32 are represented exactly.
U32Of(x) == <<(x \div U16) % U16, x % U16>>       \* of an int 0 <= x < 2^31
Hi(a) == a[1]
Lo(a) == a[2]

Or32(a, b) == <<BitOr(Hi(a), Hi(b)), BitOr(Lo(a), Lo(b))>>
And32(a, b) == <<BitAnd(Hi(a), Hi(b)), BitAnd(Lo(a), Lo(b))>>

RECURSIVE Shl32(_, _)
Shl32(a, n) ==
  IF n = 0 THEN a
  ELSE Shl32(<<(2 * Hi(a) + (2 * Lo(a)) \div U16) % U16, (2 * Lo(a)) % U16>>,
             n - 1)

RECURSIVE Shr32(_, _)
Shr32(a, n) ==
  IF n = 0 THEN a
  ELSE Shr32(<<Hi(a) \div 2, (Hi(a) % 2) * (U16 \div 2) + Lo(a) \div 2>>,
             n - 1)

Add32(a, b) ==
  <<(Hi(a) + Hi(b) + (Lo(a) + Lo(b)) \div U16) % U16, (Lo(a) + Lo(b)) % U16>>

Sub32(a, b) ==
  <<(Hi(a) - Hi(b) - (IF Lo(a) < Lo(b) THEN 1 ELSE 0) + 2 * U16) % U16,
    (Lo(a) - Lo(b) + U16) % U16>>

Lt32(a, b) == Hi(a) < Hi(b) \/ (Hi(a) = Hi(b) /\ Lo(a) < Lo(b))

(***************************************************************************)
(* FDCanMicroServer                                                        *)
(***************************************************************************)
kBrsFlag == 1
kFdcanFlag == 2
kMaxSize == 64
kBufSize == 64
kPadByte == 80

MaxWriteLen == 66
MaxWrites == 1
MaxResets == 1

\* RoundUpDlc with the row for 20 left out of the table
RoundUpDlc_NoRow20(value) ==
  IF value <= 8 THEN value
  ELSE IF value <= 12 THEN 12
  ELSE IF value <= 16 THEN 16
  ELSE IF value <= 24 THEN 24
  ELSE IF value <= 32 THEN 32
  ELSE IF value <= 48 THEN 48
  ELSE IF value <= 64 THEN 64
  ELSE 0

\* static size_t RoundUpDlc(size_t value)
RoundUpDlc(value) ==
  IF value = 0 THEN 0
  ELSE IF value = 1 THEN 1
  ELSE IF value = 2 THEN 2
  ELSE IF value = 3 THEN 3
  ELSE IF value = 4 THEN 4
  ELSE IF value = 5 THEN 5
  ELSE IF value = 6 THEN 6
  ELSE IF value = 7 THEN 7
  ELSE IF value = 8 THEN 8
  ELSE IF value <= 12 THEN 12
  ELSE IF value <= 16 THEN 16
  ELSE IF value <= 20 THEN 20
  ELSE IF value <= 24 THEN 24
  ELSE IF value <= 32 THEN 32
  ELSE IF value <= 48 THEN 48
  ELSE IF value <= 64 THEN 64
  ELSE 0

\* WriteId without the "& 0xff" masks
WriteId_NoMask(prefix, source, destination) ==
  Or32(Or32(Shl32(U32Of(source), 8), U32Of(destination)), Shl32(prefix, 16))

\* const uint32_t id = ((header.source & 0xff) << 8) |
\*                     (header.destination & 0xff) | (can_prefix_ << 16);
WriteId(prefix, source, destination) ==
  Or32(Or32(Shl32(U32Of(BitAnd(source, 255)), 8),
            U32Of(BitAnd(destination, 255))),
       Shl32(prefix, 16))

\* current_read_header_->destination = fdcan_header_.Identifier & 0xff;
PollDestination(identifier) == Lo(And32(identifier, U32Of(255)))
\* current_read_header_->source = (fdcan_header_.Identifier >> 8) & 0xff;
PollSource(identifier) == Lo(And32(Shr32(identifier, 8), U32Of(255)))

\* send_options.bitrate_switch
SendBrs(flags) ==
  IF BitAnd(flags, kBrsFlag) # 0 THEN "kRequire" ELSE "kDisable"
\* send_options.fdcan_frame
SendFd(flags, size) ==
  IF BitAnd(flags, kFdcanFlag) = 0 /\ size <= 8 THEN "kDisable" ELSE "kRequire"

\* std::memcpy(buf_, data.data(), data.size()), the part that lands in buf_
MemcpyBuf(buf, data) ==
  [i \in 1..kBufSize |-> IF i <= Len(data) THEN data[i] ELSE buf[i]]

\* PadBuf with the loop started one byte early
PadBuf_OneEarly(buf, size, actual_dlc) ==
  [i \in 1..kBufSize |-> IF i >= size /\ i <= actual_dlc THEN kPadByte ELSE buf[i]]

\* for (size_t i = data.size(); i < actual_dlc; i++) { buf_[i] = 0x50; }
PadBuf(buf, size, actual_dlc) ==
  [i \in 1..kBufSize |-> IF i > size /\ i <= actual_dlc THEN kPadByte ELSE buf[i]]

\* bytes the memcpy stores past the end of buf_
MemcpyOverrun(data) ==
  IF Len(data) > kBufSize THEN Len(data) - kBufSize ELSE 0

\* can_prefix_ is the member that follows buf_: what it holds after a memcpy
\* that ran past buf_ is not defined; it may be left alone or have its low
\* bytes replaced by the bytes that did not fit.
ClobberedPrefix(prefix, data) ==
  LET old == <<Lo(prefix) % 256, Lo(prefix) \div 256,
               Hi(prefix) % 256, Hi(prefix) \div 256>>
      new == [i \in 1..4 |-> IF i <= MemcpyOverrun(data)
                             THEN data[kBufSize + i] ELSE old[i]]
  IN  <<new[3] + 256 * new[4], new[1] + 256 * new[2]>>

PrefixAfterWrite(prefix, data) ==
  IF MemcpyOverrun(data) = 0 THEN {prefix}
  ELSE {prefix, ClobberedPrefix(prefix, data)}

\* The frame AsyncWrite passes to FDCan::Send.
WriteFrame(prefix, buf, header, data, flags) ==
  LET actual_dlc == RoundUpDlc(Len(data))
      id == WriteId(prefix, header.source, header.destination)
      padded == PadBuf(MemcpyBuf(buf, data), Len(data), actual_dlc)
  IN  [id |-> id,
       data |-> IF actual_dlc = Len(data) THEN data
                ELSE SubSeq(padded, 1, actual_dlc),
       bitrate_switch |-> SendBrs(flags),
       fdcan_frame |-> SendFd(flags, Len(data))]

\* buf_ after AsyncWrite
WriteBuf(buf, data) ==
  LET actual_dlc == RoundUpDlc(Len(data))
  IN  IF actual_dlc = Len(data) THEN buf
      ELSE PadBuf(MemcpyBuf(buf, data), Len(data), actual_dlc)

\* ---- inputs ----
\* A payload of n bytes, all different from their neighbours, and the
\* headers that come with it: the reply header and the flags of the query
\* header vary with n, so that every length is framed and the header values
\* above 8 bits and all four flag values are met.
Payload(n, seed) == [i \in 1..n |-> (seed + 7 * (i - 1)) % 256]
WriteHeaders ==
  << [source |-> 1, destination |-> 2],
     [source |-> 385, destination |-> 32770],
     [source |-> 255, destination |-> 0] >>
WriteHeader(n) == WriteHeaders[(n % 3) + 1]
WriteFlags(n) == (n \div 3) % 4
Prefixes == {U32Of(8191), <<43981, 4660>>}
\* buf_ as constructed, or as an earlier 63 byte reply left it
InitBufs ==
  { [i \in 1..kBufSize |-> 0],
    [i \in 1..kBufSize |-> IF i <= 63 THEN (200 + 3 * i) % 256 ELSE kPadByte] }
PeerHeaders == { [source |-> 3, destination |-> 1],
                 [source |-> 640, destination |-> 511] }
PeerPrefixes == {U32Of(0), U32Of(8191)}

NoHeader == [destination |-> 0, source |-> 0, size |-> 0, flags |-> 0]
NoWrite == [source |-> 0, destination |-> 0, data |-> <<>>, flags |-> 0,
            prefix |-> U32Of(0)]

InitCan ==
  /\ can_prefix_ = U32Of(0)
  /\ buf_ \in InitBufs
  /\ current_read_header_ = FALSE
  /\ read_header = NoHeader
  /\ read_cb = <<>>
  /\ rx = <<>>
  /\ can_reset_count_ = 0
  /\ wr = NoWrite
  /\ tx = <<>>
  /\ write_cb = <<>>
  /\ overrun = 0
  /\ writes = 0

SetPrefix(can_prefix) ==
  /\ can_prefix_' = can_prefix
  /\ UNCHANGED <<buf_, current_read_header_, read_header, read_cb, rx,
                 can_reset_count_, wr, tx, write_cb, overrun, writes>>
  /\ UNCHANGED notCanVars

\* The pending read as AsyncRead and Poll see it: cb is
\* current_read_callback_, hdr is current_read_header_ (set together with
\* current_read_data_), failed records a tripped MJ_ASSERT, issued counts
\* the reads accepted, calls the invocations of read callbacks.
MaxReads == 3

ReadState ==
  [cb |-> current_read_callback_, hdr |-> current_read_header_,
   failed |-> read_assert, issued |-> rd_issued, calls |-> 0]

\* void AsyncRead(header, data, callback)
AsyncReadOn(rs) ==
  IF rs.cb                             \* MJ_ASSERT(!current_read_callback_)
  THEN [rs EXCEPT !.failed = TRUE]
  ELSE [rs EXCEPT !.cb = TRUE, !.hdr = TRUE, !.issued = @ + 1]

\* current_read_callback_ = {}; current_read_header_ = {};
\* current_read_data_ = {};
ClearRead(rs) == [rs EXCEPT !.cb = FALSE, !.hdr = FALSE]

\* copy(error_code(), bytes): the callback runs and, when rearm, calls
\* AsyncRead before it returns.
InvokeRead(rs, rearm) ==
  LET called == [rs EXCEPT !.calls = @ + 1]
  IN  IF rearm THEN AsyncReadOn(called) ELSE called

PollComplete_CallFirst(rs, rearm) == ClearRead(InvokeRead(rs, rearm))

\* The tail of Poll once a frame was received.
PollComplete(rs, rearm) == InvokeRead(ClearRead(rs), rearm)

RdUnused ==
  /\ current_read_callback_ = FALSE
  /\ read_assert = FALSE
  /\ rd_issued = 0
  /\ rd_done = 0
  /\ rd_last = "none"

AsyncRead ==
  /\ ~read_assert
  /\ rd_issued < MaxReads
  /\ ~current_read_callback_          \* MJ_ASSERT(!current_read_callback_)
  /\ LET out == AsyncReadOn(ReadState)
     IN  /\ current_read_callback_' = out.cb
         /\ current_read_header_' = out.hdr
         /\ read_assert' = out.failed
         /\ rd_issued' = out.issued
  /\ rd_last' = "AsyncRead"
  /\ UNCHANGED rd_done
  /\ UNCHANGED <<can_prefix_, buf_, read_header, read_cb, rx,
                 can_reset_count_, wr, tx, write_cb, overrun, writes>>
  /\ UNCHANGED notRdVars

AsyncWrite(header, data, flags) ==
  /\ writes < MaxWrites
  /\ writes' = writes + 1
  /\ wr' = [source |-> header.source, destination |-> header.destination,
            data |-> data, flags |-> flags, prefix |-> can_prefix_]
  /\ tx' = <<WriteFrame(can_prefix_, buf_, header, data, flags)>>
  /\ buf_' = WriteBuf(buf_, data)
  /\ overrun' = (IF RoundUpDlc(Len(data)) = Len(data) THEN 0
                 ELSE MemcpyOverrun(data))
  /\ can_prefix_' \in (IF RoundUpDlc(Len(data)) = Len(data) THEN {can_prefix_}
                       ELSE PrefixAfterWrite(can_prefix_, data))
  /\ write_cb' = <<[ec |-> 0, size |-> Len(data)]>>
  /\ UNCHANGED <<current_read_header_, read_header, read_cb, rx,
                 can_reset_count_>>
  /\ UNCHANGED notCanVars

\* static int FDCan::ParseDlc(uint32_t dlc_code), by DLC index 0..15
ParseDlc(dlc_code) ==
  IF dlc_code <= 8 THEN dlc_code
  ELSE CASE dlc_code = 9 -> 12
         [] dlc_code = 10 -> 16
         [] dlc_code = 11 -> 20
         [] dlc_code = 12 -> 24
         [] dlc_code = 13 -> 32
         [] dlc_code = 14 -> 48
         [] OTHER -> 64

\* The header Poll writes through current_read_header_.
PollHeader(fdcan_header) ==
  [destination |-> PollDestination(fdcan_header.Identifier),
   source |-> PollSource(fdcan_header.Identifier),
   size |-> ParseDlc(fdcan_header.DataLength),
   flags |-> BitOr(IF fdcan_header.BitRateSwitch THEN kBrsFlag ELSE 0,
                   IF fdcan_header.FDFormat THEN kFdcanFlag ELSE 0)]

\* Frames a peer running the same framing puts on the bus; "from" records
\* the header the peer framed.
RxFrames ==
  { [Identifier |-> WriteId(p, h.source, h.destination),
     DataLength |-> d, BitRateSwitch |-> b, FDFormat |-> b, from |-> h] :
    p \in PeerPrefixes, h \in PeerHeaders, d \in {3, 15}, b \in BOOLEAN }

\* void Poll(): bus_off is status.BusOff, frames is what fdcan_->Poll
\* returns (<<>> when no packet was available), rearm is whether the read
\* callback calls AsyncRead again.
Poll(bus_off, frames, rearm) ==
  /\ ~read_assert
  /\ UNCHANGED notRdVars
  /\ IF ~current_read_header_
     THEN /\ read_cb' = <<>>
          /\ rd_last' = "Poll"
          /\ UNCHANGED <<can_prefix_, buf_, current_read_header_, read_header,
                         rx, can_reset_count_, wr, tx, write_cb, overrun, writes>>
          /\ UNCHANGED <<current_read_callback_, read_assert, rd_issued,
                         rd_done>>
     ELSE /\ can_reset_count_' =
               (IF bus_off THEN can_reset_count_ + 1 ELSE can_reset_count_)
          /\ IF frames = <<>>
             THEN /\ read_cb' = <<>>
                  /\ rd_last' = "Poll"
                  /\ UNCHANGED <<current_read_header_, read_header, rx>>
                  /\ UNCHANGED <<current_read_callback_, read_assert,
                                 rd_issued, rd_done>>
             ELSE LET out == PollComplete(ReadState, rearm)
                  IN  /\ rx' = frames
                      /\ read_header' = PollHeader(frames[1])
                      /\ current_read_callback_' = out.cb
                      /\ current_read_header_' = out.hdr
                      /\ read_assert' = out.failed
                      /\ rd_issued' = out.issued
                      /\ rd_done' = rd_done + out.calls
                      /\ rd_last' = IF rearm THEN "PollRearm" ELSE "PollFrame"
                      /\ read_cb' =
                           [k \in 1..out.calls |->
                              [ec |-> 0, size |-> PollHeader(frames[1]).size]]
          /\ UNCHANGED <<can_prefix_, buf_, wr, tx, write_cb, overrun, writes>>

CanWriteNext ==
  \/ \E p \in Prefixes : SetPrefix(p)
  \/ \E n \in 0..MaxWriteLen :
        AsyncWrite(WriteHeader(n), Payload(n, 17), WriteFlags(n))

\* The first reply, empty, for every header whose source and destination
\* fit in 8 bits and for two that do not.
HeaderFields == 0..255
WideSource == 385
WideDestination == 32770

AsyncWriteHeader ==
  /\ writes = 0
  /\ \E s \in HeaderFields \cup {WideSource},
        d \in HeaderFields \cup {WideDestination} :
       AsyncWrite([source |-> s, destination |-> d], <<>>, 0)

CanIdNext ==
  \/ \E p \in Prefixes : SetPrefix(p)
  \/ AsyncWriteHeader

CanReadNext ==
  \/ \E p \in Prefixes : SetPrefix(p)
  \/ AsyncRead
  \/ \E b \in BOOLEAN, fr \in {<<>>} \cup {<<f>> : f \in RxFrames},
        rearm \in BOOLEAN :
        /\ b => can_reset_count_ < MaxResets
        /\ rearm => rd_issued < MaxReads
        /\ (rearm => fr # <<>>)
        /\ Poll(b, fr, rearm)

(***************************************************************************)
(* UART encoders: Aksim2 and CuiAmt21                                      *)
(***************************************************************************)
kResyncBytes == 3
kAksim2Reply == 6
kCuiReply == 3
kAksim2Marker == 100
kCuiAddress == 84

MaxTicks == 7

\* sizeof(buffer_)
BufferSize(m) ==
  IF m = "kAksim2" THEN kAksim2Reply + kResyncBytes ELSE kCuiReply + kResyncBytes

\* delta_us as a difference that stops at 0 instead of wrapping
DeltaUs_Saturating(now, last) ==
  IF Lt32(now, last) THEN U32Of(0) ELSE Sub32(now, last)

\* const uint32_t delta_us = (now_us - last_query_start_us_);
DeltaUs(now, last) == Sub32(now, last)

\* TimedOut with the factor 2 taken for 3
TimedOut_Factor3(delta_us, rate) == Lt32(U32Of(3 * rate), delta_us)

\* delta_us > static_cast<uint32_t>(2 * config_.poll_rate_us)
TimedOut(delta_us, rate) == Lt32(U32Of(2 * rate), delta_us)

\* NotReady with the poll interval never awaited
NotReady_Never(delta_us, rate) == FALSE

\* delta_us < static_cast<uint32_t>(config_.poll_rate_us)
NotReady(delta_us, rate) == Lt32(delta_us, U32Of(rate))

\* even_parity with the term for bit 12 left out
even_parity_NoBit12(value) ==
  BitXor1(1,
    BitXor1(Bit(value, 0),
      BitXor1(Bit(value, 2),
        BitXor1(Bit(value, 4),
          BitXor1(Bit(value, 6),
            BitXor1(Bit(value, 8), Bit(value, 10))))))) # 0

\* the even_parity lambda of CuiAmt21::ProcessQuery, on a uint16_t
even_parity(value) ==
  BitXor1(1,
    BitXor1(Bit(value, 0),
      BitXor1(Bit(value, 2),
        BitXor1(Bit(value, 4),
          BitXor1(Bit(value, 6),
            BitXor1(Bit(value, 8),
              BitXor1(Bit(value, 10), Bit(value, 12)))))))) # 0

\* the odd_parity lambda
odd_parity(value) == even_parity(Shr(value, 1) % U16)

\* const uint16_t value = buffer_[1] | (buffer_[2] << 8);
CuiWord(buf) == BitOr(buf[2], buf[3] * 256) % U16

\* the parity test of CuiAmt21::ProcessQuery; TRUE when the reply is rejected
CuiParityMismatch(value) ==
  \/ (Bit(value, 15) # 0) # odd_parity(value)
  \/ (Bit(value, 14) # 0) # even_parity(value)

\* status->value of Aksim2::ProcessQuery
Aksim2Value(buf) ==
  Shr(BitOr(BitOr(buf[2] * 65536, buf[3] * 256), buf[4]), 2)

\* Aksim2::ProcessQuery without the test of the marker byte
Aksim2ProcessQuery_NoMarker(st, buf, rem1, rem2) ==
  IF rem1 > kResyncBytes
  THEN [status |-> st, outstanding |-> TRUE, finished |-> FALSE, proc |-> "wait"]
  ELSE IF rem2 = 0
  THEN [status |-> st, outstanding |-> FALSE, finished |-> TRUE,
        proc |-> "resync_drop"]
  ELSE [status |-> [st EXCEPT
                      !.value = Aksim2Value(buf),
                      !.aksim2_err = (BitAnd(buf[4], 1) # 0),
                      !.aksim2_warn = (BitAnd(buf[4], 2) # 0),
                      !.aksim2_status = BitOr(buf[5] * 256, buf[6]) % U16,
                      !.nonce = (st.nonce + 1) % U8,
                      !.active = TRUE],
        outstanding |-> FALSE, finished |-> TRUE, proc |-> "commit"]

\* Aksim2::ProcessQuery.  rem1 and rem2 are the two reads of
\* read_bytes_remaining().  The result holds the status, whether the query
\* is still outstanding, whether finish_dma_read() was called, and the
\* branch taken.
Aksim2ProcessQuery(st, buf, rem1, rem2) ==
  IF rem1 > kResyncBytes
  THEN [status |-> st, outstanding |-> TRUE, finished |-> FALSE, proc |-> "wait"]
  ELSE IF rem2 = 0
  THEN [status |-> st, outstanding |-> FALSE, finished |-> TRUE,
        proc |-> "resync_drop"]
  ELSE IF buf[1] # kAksim2Marker
  THEN [status |-> st, outstanding |-> TRUE, finished |-> FALSE,
        proc |-> "bad_header"]
  ELSE [status |-> [st EXCEPT
                      !.value = Aksim2Value(buf),
                      !.aksim2_err = (BitAnd(buf[4], 1) # 0),
                      !.aksim2_warn = (BitAnd(buf[4], 2) # 0),
                      !.aksim2_status = BitOr(buf[5] * 256, buf[6]) % U16,
                      !.nonce = (st.nonce + 1) % U8,
                      !.active = TRUE],
        outstanding |-> FALSE, finished |-> TRUE, proc |-> "commit"]

\* CuiAmt21::ProcessQuery with nonce++ moved above the parity test
CuiProcessQuery_NonceEarly(st, buf, rem1, rem2) ==
  IF rem1 > kResyncBytes
  THEN [status |-> st, outstanding |-> TRUE, finished |-> FALSE, proc |-> "wait"]
  ELSE IF rem2 = 0
  THEN [status |-> st, outstanding |-> FALSE, finished |-> TRUE,
        proc |-> "resync_drop"]
  ELSE IF buf[1] # kCuiAddress
  THEN [status |-> st, outstanding |-> TRUE, finished |-> FALSE,
        proc |-> "bad_header"]
  ELSE IF CuiParityMismatch(CuiWord(buf))
  THEN [status |-> [st EXCEPT
                      !.nonce = (st.nonce + 1) % U8,
                      !.checksum_errors = (st.checksum_errors + 1) % U16],
        outstanding |-> FALSE, finished |-> TRUE, proc |-> "parity_fail"]
  ELSE [status |-> [st EXCEPT
                      !.value = BitAnd(CuiWord(buf), 16383),
                      !.nonce = (st.nonce + 1) % U8,
                      !.active = TRUE],
        outstanding |-> FALSE, finished |-> TRUE, proc |-> "commit"]

\* CuiAmt21::ProcessQuery with the parity test placed above
\* finish_dma_read(): a rejected reply leaves the query outstanding
CuiProcessQuery_NoRetire(st, buf, rem1, rem2) ==
  IF rem1 > kResyncBytes
  THEN [status |-> st, outstanding |-> TRUE, finished |-> FALSE, proc |-> "wait"]
  ELSE IF rem2 = 0
  THEN [status |-> st, outstanding |-> FALSE, finished |-> TRUE,
        proc |-> "resync_drop"]
  ELSE IF buf[1] # kCuiAddress
  THEN [status |-> st, outstanding |-> TRUE, finished |-> FALSE,
        proc |-> "bad_header"]
  ELSE IF CuiParityMismatch(CuiWord(buf))
  THEN [status |-> [st EXCEPT
                      !.checksum_errors = (st.checksum_errors + 1) % U16],
        outstanding |-> TRUE, finished |-> FALSE, proc |-> "parity_fail"]
  ELSE [status |-> [st EXCEPT
                      !.value = BitAnd(CuiWord(buf), 16383),
                      !.nonce = (st.nonce + 1) % U8,
                      !.active = TRUE],
        outstanding |-> FALSE, finished |-> TRUE, proc |-> "commit"]

\* CuiAmt21::ProcessQuery
CuiProcessQuery(st, buf, rem1, rem2) ==
  IF rem1 > kResyncBytes
  THEN [status |-> st, outstanding |-> TRUE, finished |-> FALSE, proc |-> "wait"]
  ELSE IF rem2 = 0
  THEN [status |-> st, outstanding |-> FALSE, finished |-> TRUE,
        proc |-> "resync_drop"]
  ELSE IF buf[1] # kCuiAddress
  THEN [status |-> st, outstanding |-> TRUE, finished |-> FALSE,
        proc |-> "bad_header"]
  ELSE IF CuiParityMismatch(CuiWord(buf))
  THEN [status |-> [st EXCEPT
                      !.checksum_errors = (st.checksum_errors + 1) % U16],
        outstanding |-> FALSE, finished |-> TRUE, proc |-> "parity_fail"]
  ELSE [status |-> [st EXCEPT
                      !.value = BitAnd(CuiWord(buf), 16383),
                      !.nonce = (st.nonce + 1) % U8,
                      !.active = TRUE],
        outstanding |-> FALSE, finished |-> TRUE, proc |-> "commit"]

ProcessQuery(m, st, buf, rem1, rem2) ==
  IF m = "kAksim2" THEN Aksim2ProcessQuery(st, buf, rem1, rem2)
  ELSE CuiProcessQuery(st, buf, rem1, rem2)

\* The first half of ISR_Update: "if (query_outstanding_) { ... }".
Retire(m, st, buf, outstanding, delta_us, rate, rem1, rem2) ==
  IF ~outstanding
  THEN [status |-> st, outstanding |-> FALSE, finished |-> FALSE, proc |-> "idle"]
  ELSE IF TimedOut(delta_us, rate)
  THEN [status |-> st, outstanding |-> FALSE, finished |-> TRUE,
        proc |-> "timeout"]
  ELSE ProcessQuery(m, st, buf, rem1, rem2)

\* The second half of ISR_Update: TRUE when a new query is issued.
Issue(outstanding, delta_us, rate) ==
  /\ ~outstanding
  /\ ~NotReady(delta_us, rate)

\* ---- inputs ----
PollRates == {2, 3}
Modes == {"kAksim2", "kCuiAmt21"}

\* What the encoder may answer to one request byte: a good reply, a reply
\* cut short, a reply behind a stray byte that fills the resync bytes, a
\* reply that fails its check, or nothing.
Replies(m) ==
  IF m = "kAksim2"
  THEN { <<100, 1, 2, 7, 18, 52>>,
         <<100, 255, 255, 252, 0, 0, 9, 9, 9>>,
         <<100, 1, 2>>,
         <<0, 100, 1, 2, 7, 18, 52, 0, 0>>,
         <<>> }
  ELSE { <<84, 0, 192>>,
         <<84, 1, 128>>,
         <<84, 1, 192>>,
         <<84>>,
         <<0, 84, 0, 192, 0, 0>>,
         <<>> }

FreshStatus ==
  [active |-> FALSE, value |-> 0, nonce |-> 0, aksim2_err |-> FALSE,
   aksim2_warn |-> FALSE, aksim2_status |-> 0, checksum_errors |-> 0]

\* A status that has been running for a while: 255 replies committed and,
\* for the CUI AMT21, 65535 parity errors counted.
AgedStatus(m) ==
  IF m = "kAksim2"
  THEN [FreshStatus EXCEPT !.active = TRUE, !.nonce = 255, !.value = 16513,
                           !.aksim2_err = TRUE, !.aksim2_warn = TRUE,
                           !.aksim2_status = 4660]
  ELSE [FreshStatus EXCEPT !.active = TRUE, !.nonce = 255, !.value = 1,
                           !.checksum_errors = 65535]

NoEvent == [proc |-> "none", issued |-> FALSE]

\* queries counts the queries started, prev_start is last_query_start_us_
\* as it was before the latest of them.
UqUnused ==
  /\ queries = 0
  /\ prev_start = U32Of(0)

\* The encoder is configured just after boot, with a status as constructed,
\* or shortly before the 32 bit microsecond counter wraps, with a status that
\* has been in use.
InitUart ==
  /\ mode \in Modes
  /\ poll_rate_us \in PollRates
  /\ \/ t0 = U32Of(0) /\ status = FreshStatus
     \/ t0 = Sub32(U32Of(0), U32Of(3)) /\ status = AgedStatus(mode)
  /\ now_us = t0
  /\ query_outstanding_ = FALSE
  /\ last_query_start_us_ = U32Of(0)
  /\ buffer_ = [i \in 1..BufferSize(mode) |-> 0]
  /\ cndtr = 0
  /\ dma_en = FALSE
  /\ enc_req = FALSE
  /\ wire = <<>>
  /\ ev = NoEvent

\* The microsecond timer counts.
Tick ==
  /\ Lt32(Sub32(now_us, t0), U32Of(MaxTicks))
  /\ now_us' = Add32(now_us, U32Of(1))
  /\ ev' = NoEvent
  /\ UNCHANGED <<mode, poll_rate_us, t0, query_outstanding_,
                 last_query_start_us_, buffer_, cndtr, dma_en, enc_req, wire,
                 status>>
  /\ UNCHANGED notUartVars

\* The encoder answers the request byte it received.
EncoderReply ==
  /\ enc_req
  /\ wire = <<>>
  /\ \E r \in Replies(mode) : wire' = r
  /\ enc_req' = FALSE
  /\ ev' = NoEvent
  /\ UNCHANGED <<mode, poll_rate_us, t0, now_us, query_outstanding_,
                 last_query_start_us_, buffer_, cndtr, dma_en, status>>
  /\ UNCHANGED notUartVars

\* The buffer and CNDTR after the receive DMA has stored one byte.
DmaStore(buf, remaining, byte) ==
  [buf EXCEPT ![Len(buf) - remaining + 1] = byte]

\* One byte arrives at the UART; the receive DMA stores it while it is
\* enabled and has room, otherwise the byte is lost.
RxByte ==
  /\ wire # <<>>
  /\ wire' = Tail(wire)
  /\ IF dma_en /\ cndtr > 0
     THEN /\ buffer_' = DmaStore(buffer_, cndtr, Head(wire))
          /\ cndtr' = cndtr - 1
     ELSE UNCHANGED <<buffer_, cndtr>>
  /\ ev' = NoEvent
  /\ UNCHANGED <<mode, poll_rate_us, t0, now_us, query_outstanding_,
                 last_query_start_us_, dma_en, enc_req, status>>
  /\ UNCHANGED notUartVars

\* ISR_Update of either encoder.  race: a byte arrives between the two
\* reads of read_bytes_remaining() in ProcessQuery.
ISR_Update(race) ==
  LET delta_us == DeltaUs(now_us, last_query_start_us_)
      arrives == race /\ dma_en /\ cndtr > 0 /\ wire # <<>>
      rem2 == IF arrives THEN cndtr - 1 ELSE cndtr
      buf2 == IF arrives THEN DmaStore(buffer_, cndtr, Head(wire)) ELSE buffer_
      r == Retire(mode, status, buffer_, query_outstanding_, delta_us,
                  poll_rate_us, cndtr, rem2)
      issue == Issue(r.outstanding, delta_us, poll_rate_us)
  IN  /\ race => (arrives /\ query_outstanding_ /\ cndtr <= kResyncBytes
                  /\ ~TimedOut(delta_us, poll_rate_us))
      /\ status' = r.status
      /\ wire' = (IF arrives THEN Tail(wire) ELSE wire)
      /\ buffer_' = buf2
      /\ IF issue
         THEN /\ last_query_start_us_' = now_us
              /\ query_outstanding_' = TRUE
              /\ enc_req' = TRUE                      \* uart_->write_char
              /\ cndtr' = BufferSize(mode)            \* StartRead
              /\ dma_en' = TRUE
         ELSE /\ query_outstanding_' = r.outstanding
              /\ cndtr' = rem2
              /\ dma_en' = (IF r.finished THEN FALSE ELSE dma_en)
              /\ UNCHANGED <<last_query_start_us_, enc_req>>
      /\ ev' = [proc |-> r.proc, issued |-> issue]
      /\ queries' = (IF issue THEN queries + 1 ELSE queries)
      /\ prev_start' = (IF issue THEN last_query_start_us_ ELSE prev_start)
      /\ UNCHANGED <<mode, poll_rate_us, t0, now_us>>
      /\ UNCHANGED notUqVars

Aksim2_ISR_Update ==
  /\ mode = "kAksim2"
  /\ \E race \in BOOLEAN : ISR_Update(race)

CuiAmt21_ISR_Update ==
  /\ mode = "kCuiAmt21"
  /\ \E race \in BOOLEAN : ISR_Update(race)

UartNext ==
  \/ Tick
  \/ EncoderReply
  \/ RxByte
  \/ Aksim2_ISR_Update
  \/ CuiAmt21_ISR_Update

(***************************************************************************)
(* AS5047 on Stm32Spi                                                      *)
(***************************************************************************)
\* The 16 bit words the encoder may shift out during a transfer.
SpiWords == (0..255) \cup {4095, 4096, 8191, 8192, 16383, 16384, 16385,
                           32767, 32768, 49151, 49152, 65534, 65535}

k14BitMask == 16383

\* Stm32Spi::start_write: select the device, load DR and enable the
\* peripheral; the transfer then leaves the device's word r in DR.
start_write(r) ==
  /\ spi_cs' = 0
  /\ spi_spe' = TRUE
  /\ spi_dr' = r

\* Stm32Spi::finish_write: the word read from DR.
finish_write_result == spi_dr

\* Stm32Spi::finish_write: disable the peripheral and deselect the device.
finish_write ==
  /\ spi_spe' = FALSE
  /\ spi_cs' = 1

\* AS5047::Sample: (spi_.write(0xffff) & 0x3fff) << 2, returned as uint16_t.
SampleValue(r) == (BitAnd(r, k14BitMask) * 4) % U16

\* AS5047::FinishSample: (spi_.finish_write() & 0x3fff), returned as uint16_t.
FinishSampleValue(r) == BitAnd(r, k14BitMask) % U16

NoSample == [call |-> "none", ret |-> 0]

InitSpi ==
  /\ spi_cs = 1
  /\ spi_spe = FALSE
  /\ spi_dr = 0
  /\ as5047 = NoSample

\* AS5047::Sample: a whole transfer, start_write then finish_write.
AS5047_Sample(r) ==
  /\ ~spi_spe
  /\ spi_dr' = r
  /\ finish_write
  /\ as5047' = [call |-> "Sample", ret |-> SampleValue(r)]
  /\ UNCHANGED notSpiVars

AS5047_StartSample(r) ==
  /\ ~spi_spe
  /\ start_write(r)
  /\ as5047' = [call |-> "StartSample", ret |-> 0]
  /\ UNCHANGED notSpiVars

AS5047_FinishSample ==
  /\ spi_spe
  /\ finish_write
  /\ as5047' = [call |-> "FinishSample",
                ret |-> FinishSampleValue(finish_write_result)]
  /\ UNCHANGED spi_dr
  /\ UNCHANGED notSpiVars

AS5047_SampleAny == \E r \in SpiWords : AS5047_Sample(r)
AS5047_StartSampleAny == \E r \in SpiWords : AS5047_StartSample(r)

SpiNext ==
  \/ AS5047_SampleAny
  \/ AS5047_StartSampleAny
  \/ AS5047_FinishSample


(***************************************************************************)
(* Stm32Index                                                              *)
(***************************************************************************)
NoIndexStatus == [active |-> FALSE, raw |-> FALSE, value |-> FALSE]
NoIndexLocal == [old_raw |-> FALSE, observed |-> FALSE]
NoIndexEvent == [kind |-> "none", owed |-> "no", live |-> FALSE]

\* status->raw = observed || index_isr_->read()
IndexRaw_LiveOnly(observed, live) == live
IndexRaw(observed, live) == observed \/ live

\* value following the level of raw
IndexValue_Level(raw, old_raw) == raw

\* status->value = status->raw && !old_raw
IndexValue(raw, old_raw) == raw /\ ~old_raw

\* The object as constructed, with a usable index pin or with
\* kIndexPinError; the pin is at either level.
InitIndex ==
  /\ idx_pin \in BOOLEAN
  /\ exti_pr = FALSE
  /\ observed_ = FALSE
  /\ idx_error \in BOOLEAN
  /\ idx_status = NoIndexStatus
  /\ idx_pc = "idle"
  /\ idx_local = NoIndexLocal
  /\ idx_seen = "no"
  /\ idx_ev = NoIndexEvent

IndexUnused ==
  /\ InitIndex /\ idx_pin = FALSE /\ idx_error = FALSE

\* An edge on the index pin: rising and falling edges both raise the EXTI
\* line.
IndexPinEdge ==
  /\ idx_pin' = ~idx_pin
  /\ exti_pr' = TRUE
  /\ UNCHANGED <<observed_, idx_error, idx_status, idx_pc, idx_local,
                 idx_seen, idx_ev>>
  /\ UNCHANGED notIndexVars

\* An edge on another pin that shares the interrupt: ISR_Routine calls every
\* registered callback.
OtherPinEdge ==
  /\ ~exti_pr
  /\ exti_pr' = TRUE
  /\ UNCHANGED <<idx_pin, observed_, idx_error, idx_status, idx_pc,
                 idx_local, idx_seen, idx_ev>>
  /\ UNCHANGED notIndexVars

\* Stm32GpioInterruptIn::ISR_Routine calling Stm32Index::ISR_Callback; it
\* may run between the two steps of an ISR_Update.
Index_ISR_Callback ==
  /\ exti_pr
  /\ exti_pr' = FALSE
  /\ observed_' = (IF idx_pin THEN TRUE ELSE observed_)
  /\ idx_seen' = (IF ~idx_pin THEN idx_seen
                  ELSE IF idx_pc = "exchanged" THEN "mid"
                  ELSE IF idx_seen = "mid" THEN "mid" ELSE "idle")
  /\ UNCHANGED <<idx_pin, idx_error, idx_status, idx_pc, idx_local, idx_ev>>
  /\ UNCHANGED notIndexVars

\* Stm32Index::ISR_Update up to and including observed_.exchange(false).
Index_ISR_Update_Exchange ==
  /\ idx_pc = "idle"
  /\ IF idx_error
       THEN /\ idx_ev' = [kind |-> "error", owed |-> "no", live |-> FALSE]
            /\ UNCHANGED <<observed_, idx_pc, idx_local, idx_seen>>
       ELSE /\ idx_local' = [old_raw |-> idx_status.raw,
                             observed |-> observed_]
            /\ observed_' = FALSE
            /\ idx_pc' = "exchanged"
            /\ idx_seen' = "no"
            /\ idx_ev' = [kind |-> "exchange", owed |-> idx_seen,
                          live |-> FALSE]
  /\ UNCHANGED <<idx_pin, exti_pr, idx_error, idx_status>>
  /\ UNCHANGED notIndexVars

\* Stm32Index::ISR_Update from the live read of the pin to its end.
Index_ISR_Update_Read ==
  /\ idx_pc = "exchanged"
  /\ LET raw == IndexRaw(idx_local.observed, idx_pin) IN
       idx_status' = [active |-> TRUE,
                      raw |-> raw,
                      value |-> IndexValue(raw, idx_local.old_raw)]
  /\ idx_pc' = "idle"
  /\ idx_ev' = [kind |-> "update", owed |-> idx_ev.owed, live |-> idx_pin]
  /\ UNCHANGED <<idx_pin, exti_pr, observed_, idx_error, idx_local,
                 idx_seen>>
  /\ UNCHANGED notIndexVars

IndexNext ==
  \/ IndexPinEdge
  \/ OtherPinEdge
  \/ Index_ISR_Callback
  \/ Index_ISR_Update_Exchange
  \/ Index_ISR_Update_Read


(***************************************************************************)
(* Stm32Quadrature                                                         *)
(***************************************************************************)
MaxQuadSteps == 4
MaxQuadUpdates == 2

\* x % c for a uint32_t x and 0 < c < 2^15
Mod32(x, c) == (((Hi(x) % c) * (U16 % c)) + (Lo(x) % c)) % c

\* an int converted to uint32_t
U32OfInt(i) == IF i >= 0 THEN U32Of(i) ELSE Sub32(U32Of(0), U32Of(0 - i))

\* static_cast<int16_t>(static_cast<uint16_t>(x))
Int16Of(x) == IF x >= 32768 THEN x - U16 ELSE x

\* kQuadUpdate[], indexed by (old_pins << 2) | pins
kQuadUpdate_Entry7 ==
  <<0, 1, -1, 0, -1, 0, 0, -1, 1, 0, 0, -1, 0, -1, 1, 0>>
kQuadUpdate ==
  <<0, 1, -1, 0, -1, 0, 0, 1, 1, 0, 0, -1, 0, -1, 1, 0>>

\* kQuadError[]
kQuadError ==
  <<0, 0, 0, 1, 0, 0, 1, 0, 0, 1, 0, 0, 1, 0, 0, 0>>

QuadIndex(old_pins, pins) == ((old_pins * 4) + pins) % U8

\* the count moved by d and not reduced
QuadNewValue_NoModulo(value, d, cpr) == value + d

\* static_cast<uint32_t>(status_->value) + d + config_.cpr, then % cpr
QuadNewValue(value, d, cpr) ==
  Mod32(Add32(Add32(U32Of(value), U32OfInt(d)), U32Of(cpr)), cpr)

\* the 16 bit difference of the counter, as int16_t
TimerDelta(new_cnt, old_cnt) ==
  Int16Of(Lo(Sub32(U32Of(new_cnt), U32Of(old_cnt))))

QuadCprs == {1, 3, 4, 16384}
CntValues == {0, 1, 5, 32767, 32768, 65535}
NoQuadEvent == [kind |-> "none", old_pins |-> 0, old_value |-> 0,
                old_error |-> 0, delta |-> 0]

\* Software quadrature as constructed, or after use: the count anywhere in
\* [0, cpr) and the error counter about to wrap.
InitQuadSw ==
  /\ q_hw = FALSE
  /\ q_cpr \in QuadCprs
  /\ q_in \in 0..3
  /\ \E v \in {0, q_cpr - 1}, e \in {0, 65535} :
       q_status = [active |-> TRUE, pins |-> 0, value |-> v, error |-> e]
  /\ old_timer_cnt_ = 0
  /\ hw_cnt = 0
  /\ q_steps = 0
  /\ q_ev = NoQuadEvent

\* Hardware quadrature: old_timer_cnt_ is the counter as first read.
InitQuadHw ==
  /\ q_hw = TRUE
  /\ q_cpr \in QuadCprs
  /\ q_in \in 0..3
  /\ \E v \in {0, q_cpr - 1} :
       q_status = [active |-> TRUE, pins |-> 0, value |-> v, error |-> 0]
  /\ hw_cnt \in CntValues
  /\ old_timer_cnt_ = hw_cnt
  /\ q_steps = 0
  /\ q_ev = NoQuadEvent

QuadUnused ==
  /\ InitQuadSw /\ q_cpr = 16384 /\ q_in = 0
  /\ q_status = [active |-> TRUE, pins |-> 0, value |-> 0, error |-> 0]


\* the encoder moves: either pin, or both, may change before the interrupt
\* is served
QuadPins(a, b) ==
  /\ q_steps < MaxQuadSteps
  /\ q_in' = a + (2 * b)
  /\ q_in' # q_in
  /\ UNCHANGED <<q_hw, q_cpr, q_status, old_timer_cnt_, hw_cnt, q_steps,
                 q_ev>>
  /\ UNCHANGED notQuadVars

QuadPinsAny == \E a \in 0..1, b \in 0..1 : QuadPins(a, b)

\* Stm32Quadrature::ISR_Callback (software quadrature only: a_ and b_ exist)
Quad_ISR_Callback ==
  /\ ~q_hw
  /\ q_steps < MaxQuadSteps
  /\ LET old_pins == q_status.pins
         pins == q_in
         update == QuadIndex(old_pins, pins)
     IN /\ q_status' =
             [q_status EXCEPT
                !.pins = pins,
                !.value = QuadNewValue(q_status.value,
                                       kQuadUpdate[update + 1], q_cpr),
                !.error = (q_status.error + kQuadError[update + 1]) % U16]
        /\ q_ev' = [kind |-> "callback", old_pins |-> old_pins,
                    old_value |-> q_status.value,
                    old_error |-> q_status.error, delta |-> 0]
  /\ q_steps' = q_steps + 1
  /\ UNCHANGED <<q_hw, q_cpr, q_in, old_timer_cnt_, hw_cnt>>
  /\ UNCHANGED notQuadVars

\* the hardware counter follows the encoder
TimerCount(c) ==
  /\ q_hw
  /\ q_steps < MaxQuadUpdates
  /\ hw_cnt' = c
  /\ hw_cnt' # hw_cnt
  /\ UNCHANGED <<q_hw, q_cpr, q_in, q_status, old_timer_cnt_, q_steps, q_ev>>
  /\ UNCHANGED notQuadVars

TimerCountAny == \E c \in CntValues : TimerCount(c)

\* Stm32Quadrature::ISR_Update; status and status_ are the same object
Quad_ISR_Update ==
  /\ q_steps < (IF q_hw THEN MaxQuadUpdates ELSE MaxQuadSteps)
  /\ IF ~q_hw
       THEN /\ q_ev' = [NoQuadEvent EXCEPT !.kind = "skipped"]
            /\ UNCHANGED <<q_status, old_timer_cnt_>>
       ELSE LET new_cnt == hw_cnt
                delta == TimerDelta(new_cnt, old_timer_cnt_)
            IN /\ old_timer_cnt_' = new_cnt
               /\ q_status' =
                    [q_status EXCEPT
                       !.pins = q_in,
                       !.value = QuadNewValue(q_status.value, delta, q_cpr),
                       !.error = 0]
               /\ q_ev' = [kind |-> "update", old_pins |-> q_status.pins,
                           old_value |-> q_status.value,
                           old_error |-> q_status.error, delta |-> delta]
  /\ q_steps' = q_steps + 1
  /\ UNCHANGED <<q_hw, q_cpr, q_in, hw_cnt>>
  /\ UNCHANGED notQuadVars

QuadSwNext ==
  \/ QuadPinsAny
  \/ Quad_ISR_Callback
  \/ Quad_ISR_Update

QuadHwNext ==
  \/ TimerCountAny
  \/ Quad_ISR_Update

QuadNext ==
  \/ QuadPinsAny
  \/ Quad_ISR_Callback
  \/ TimerCountAny
  \/ Quad_ISR_Update


(***************************************************************************)
(* Stm32I2c                                                                *)
(***************************************************************************)
\* I2C_ISR after the peripheral is enabled: only TXE is set
IsrReset == [tc |-> FALSE, rxne |-> FALSE, txe |-> TRUE, nackf |-> FALSE,
             arlo |-> FALSE, busy |-> FALSE]

I2cSizes == {1, 2}
NoI2cEvent == [call |-> "none", fault |-> FALSE, was |-> "kIdle",
               ret |-> "none", reinit |-> FALSE]

\* Stm32I2c::busy()
busy ==
  mode_ \in {"kSentRegisterRead", "kReadingData", "kWritingData"}

\* The constructor has run Initialize(); the timings were achievable.
InitI2c ==
  /\ valid_ = TRUE
  /\ mode_ = "kIdle"
  /\ i2c_isr = IsrReset
  /\ i2c_start = FALSE
  /\ i2c_rd = FALSE
  /\ i2c_left = 0
  /\ i2c_bus = "idle"
  /\ offset_ = 0
  /\ i2c_size = 0
  /\ i2c_ev = NoI2cEvent

\* no store into rx_data_ yet
I2crxUnused == rx_stores = <<>>

\* what a driver call meets: a NACK or a lost arbitration flagged while a
\* transaction is in progress
I2cEvent(call, ret, reinit) ==
  [call |-> call,
   fault |-> busy /\ (i2c_isr.nackf \/ i2c_isr.arlo),
   was |-> mode_,
   ret |-> ret,
   reinit |-> reinit]

\* NotStartable looking at mode_ alone
NotStartable_ModeOnly == mode_ # "kIdle"

\* mode_ != kIdle || CR2.START || ISR.BUSY
NotStartable == mode_ # "kIdle" \/ i2c_start \/ i2c_isr.busy

\* Stm32I2c::StartReadMemory
StartReadMemory(size) ==
  /\ i2c_ev' = I2cEvent("StartReadMemory", "none", FALSE)
  /\ IF ~valid_
       THEN UNCHANGED <<mode_, i2c_isr, i2c_start, i2c_rd, i2c_left, i2c_bus,
                        offset_, i2c_size>>
     ELSE IF NotStartable
       THEN /\ mode_' = "kError"
            /\ UNCHANGED <<i2c_isr, i2c_start, i2c_rd, i2c_left, i2c_bus,
                           offset_, i2c_size>>
     ELSE /\ i2c_size' = size                         \* rx_data_ = data
          /\ i2c_isr' = [i2c_isr EXCEPT !.nackf = FALSE, !.txe = FALSE,
                                        !.tc = FALSE]
          /\ i2c_start' = TRUE
          /\ i2c_rd' = FALSE
          /\ i2c_left' = 1
          /\ i2c_bus' = "start"
          /\ mode_' = "kSentRegisterRead"
          /\ UNCHANGED offset_
  /\ rx_stores' = (IF valid_ /\ ~NotStartable THEN <<>> ELSE rx_stores)
  /\ UNCHANGED valid_
  /\ UNCHANGED notI2crxVars

\* Stm32I2c::StartWriteMemory
StartWriteMemory(size) ==
  /\ i2c_ev' = I2cEvent("StartWriteMemory", "none", FALSE)
  /\ IF ~valid_
       THEN UNCHANGED <<mode_, i2c_isr, i2c_start, i2c_rd, i2c_left, i2c_bus,
                        offset_, i2c_size>>
     ELSE IF NotStartable
       THEN /\ mode_' = "kError"
            /\ UNCHANGED <<i2c_isr, i2c_start, i2c_rd, i2c_left, i2c_bus,
                           offset_, i2c_size>>
     ELSE /\ i2c_size' = size
          /\ i2c_isr' = [i2c_isr EXCEPT !.txe = FALSE, !.tc = FALSE]
          /\ i2c_start' = TRUE
          /\ i2c_rd' = FALSE
          /\ i2c_left' = 1 + size
          /\ i2c_bus' = "start"
          /\ offset_' = 0
          /\ mode_' = "kWritingData"
  /\ UNCHANGED valid_
  /\ UNCHANGED notI2cVars


\* the byte in RXDR: the bytes of a transfer are numbered from 0
Rxdr == i2c_size - i2c_left - 1

\* the end of a read taken one byte early
ReadDone_Early(offset, size) == offset >= size - 1

\* offset_ >= rx_data_.size()
ReadDone(offset, size) == offset >= size

\* the switch of Stm32I2c::Poll: the driver state and registers after it,
\* and the stores into rx_data_ as <<offset, byte>>
PollSwitch ==
  LET here == [mode |-> mode_, isr |-> i2c_isr, start |-> i2c_start,
               rd |-> i2c_rd, left |-> i2c_left, bus |-> i2c_bus,
               offset |-> offset_, stored |-> <<>>]
  IN CASE mode_ = "kSentRegisterRead" /\ i2c_isr.tc ->
            [here EXCEPT
               !.isr = [i2c_isr EXCEPT !.nackf = FALSE, !.tc = FALSE],
               !.start = TRUE, !.rd = TRUE, !.left = i2c_size,
               !.bus = "start", !.offset = 0, !.mode = "kReadingData"]
       [] mode_ = "kReadingData" /\ i2c_isr.rxne ->
            IF ReadDone(offset_ + 1, i2c_size)
              THEN [here EXCEPT
                      !.isr = [i2c_isr EXCEPT !.rxne = FALSE,
                                              !.nackf = FALSE],
                      !.stored = <<<<offset_, Rxdr>>>>,
                      !.offset = offset_ + 1, !.mode = "kComplete"]
              ELSE [here EXCEPT
                      !.isr = [i2c_isr EXCEPT !.rxne = FALSE],
                      !.stored = <<<<offset_, Rxdr>>>>,
                      !.offset = offset_ + 1]
       [] mode_ = "kWritingData" /\ i2c_isr.txe ->
            IF offset_ >= i2c_size
              THEN [here EXCEPT
                      !.isr = [i2c_isr EXCEPT !.nackf = FALSE],
                      !.mode = "kComplete"]
              ELSE [here EXCEPT
                      !.isr = [i2c_isr EXCEPT !.txe = FALSE],
                      !.offset = offset_ + 1]
       [] OTHER -> here

\* the check that ends Stm32I2c::Poll: only NACKF is looked at
PollFault(isr) == isr.nackf

\* Stm32I2c::Poll
I2cPoll ==
  LET after == PollSwitch
      fault == PollFault(after.isr)
  IN /\ mode_' = (IF fault THEN "kError" ELSE after.mode)
     /\ i2c_isr' = (IF fault THEN [after.isr EXCEPT !.nackf = FALSE]
                             ELSE after.isr)
     /\ i2c_start' = after.start
     /\ i2c_rd' = after.rd
     /\ i2c_left' = after.left
     /\ i2c_bus' = after.bus
     /\ offset_' = after.offset
     /\ rx_stores' = rx_stores \o after.stored
     /\ i2c_ev' = I2cEvent("Poll", "none", FALSE)
     /\ UNCHANGED <<valid_, i2c_size>>
     /\ UNCHANGED notI2crxVars

\* Stm32I2c::Initialize: PE is cleared, which resets the controller and
\* releases the bus, and set again; the timings are computed as before.
Initialize ==
  /\ i2c_isr' = IsrReset
  /\ i2c_start' = FALSE
  /\ i2c_bus' = "idle"
  /\ valid_' = TRUE

\* Stm32I2c::CheckRead
CheckRead ==
  /\ IF ~valid_
       THEN /\ i2c_ev' = I2cEvent("CheckRead", "kError", FALSE)
            /\ UNCHANGED <<valid_, mode_, i2c_isr, i2c_start, i2c_bus>>
     ELSE IF mode_ = "kComplete"
       THEN /\ mode_' = "kIdle"
            /\ i2c_ev' = I2cEvent("CheckRead", "kComplete", FALSE)
            /\ UNCHANGED <<valid_, i2c_isr, i2c_start, i2c_bus>>
     ELSE IF mode_ = "kError"
       THEN /\ Initialize
            /\ mode_' = "kIdle"
            /\ i2c_ev' = I2cEvent("CheckRead", "kError", TRUE)
     ELSE /\ i2c_ev' = I2cEvent("CheckRead", "kNoStatus", FALSE)
          /\ UNCHANGED <<valid_, mode_, i2c_isr, i2c_start, i2c_bus>>
  /\ UNCHANGED <<i2c_rd, i2c_left, offset_, i2c_size>>
  /\ UNCHANGED notI2cVars

\* ---- the controller and the bus ----
I2cHw(isr, start, left, bus) ==
  /\ i2c_isr' = isr
  /\ i2c_start' = start
  /\ i2c_left' = left
  /\ i2c_bus' = bus
  /\ i2c_ev' = [NoI2cEvent EXCEPT !.was = mode_]
  /\ UNCHANGED <<valid_, mode_, i2c_rd, offset_, i2c_size>>
  /\ UNCHANGED notI2cVars

\* the start condition and the address go out: START is cleared, BUSY set
I2cStartSent ==
  /\ i2c_bus = "start"
  /\ I2cHw([i2c_isr EXCEPT !.busy = TRUE], FALSE, i2c_left, "addr")

\* the device acknowledges its address: a read then receives, a write sends
I2cAddressAcked ==
  /\ i2c_bus = "addr"
  /\ I2cHw(i2c_isr, i2c_start, i2c_left,
           IF i2c_rd THEN "data_r" ELSE "data_w")

\* a byte written to TXDR has been sent; after the last one the controller
\* flags TC (register address of a read) or sends the stop (AUTOEND)
I2cByteSent ==
  /\ i2c_bus = "data_w"
  /\ ~i2c_isr.txe
  /\ i2c_left > 0
  /\ IF i2c_left > 1
       THEN I2cHw([i2c_isr EXCEPT !.txe = TRUE], i2c_start, i2c_left - 1,
                  "data_w")
     ELSE IF mode_ = "kSentRegisterRead"
       THEN I2cHw([i2c_isr EXCEPT !.txe = TRUE, !.tc = TRUE], i2c_start, 0,
                  "tc")
     ELSE I2cHw([i2c_isr EXCEPT !.txe = TRUE, !.busy = FALSE], i2c_start, 0,
                "idle")

\* a byte has been received; after the last one the stop is sent (AUTOEND)
I2cByteReceived ==
  /\ i2c_bus = "data_r"
  /\ ~i2c_isr.rxne
  /\ i2c_left > 0
  /\ IF i2c_left > 1
       THEN I2cHw([i2c_isr EXCEPT !.rxne = TRUE], i2c_start, i2c_left - 1,
                  "data_r")
       ELSE I2cHw([i2c_isr EXCEPT !.rxne = TRUE, !.busy = FALSE], i2c_start,
                  0, "idle")

\* the address or a byte sent is not acknowledged: NACKF, then a stop
I2cNack ==
  /\ i2c_bus = "addr" \/ (i2c_bus = "data_w" /\ ~i2c_isr.txe)
  /\ I2cHw([i2c_isr EXCEPT !.nackf = TRUE, !.busy = FALSE], i2c_start,
           i2c_left, "idle")

\* another master wins the bus: ARLO, and the controller stops driving
I2cArbitrationLost ==
  /\ i2c_bus \in {"addr", "data_w", "data_r"}
  /\ I2cHw([i2c_isr EXCEPT !.arlo = TRUE], FALSE, i2c_left, "lost")

\* another master starts a transfer on the idle bus: BUSY is set
I2cOtherMaster ==
  /\ i2c_bus = "idle"
  /\ ~i2c_isr.busy
  /\ I2cHw([i2c_isr EXCEPT !.busy = TRUE], i2c_start, i2c_left, "lost")

\* the other master ends its transfer
I2cBusReleased ==
  /\ i2c_bus = "lost"
  /\ I2cHw([i2c_isr EXCEPT !.busy = FALSE], i2c_start, i2c_left, "idle")

StartReadMemoryAny == \E n \in I2cSizes : StartReadMemory(n)
StartWriteMemoryAny == \E n \in I2cSizes : StartWriteMemory(n)

I2cNext ==
  \/ StartReadMemoryAny
  \/ StartWriteMemoryAny
  \/ I2cPoll
  \/ CheckRead
  \/ I2cStartSent
  \/ I2cAddressAcked
  \/ I2cByteSent
  \/ I2cByteReceived
  \/ I2cNack
  \/ I2cArbitrationLost
  \/ I2cOtherMaster
  \/ I2cBusReleased


(***************************************************************************)
(* BldcServo: the mode machine, the fault latch and the command watchdog   *)
(***************************************************************************)
d_min == 1
d_max == 3
ZeroVelocityTimeout == 2

ActiveModes == {"kPosition", "kCurrent", "kBrake"}
CommandModes == ActiveModes \cup {"kStopped"}
WatchdogTimeouts == {1, 2}
FaultCodes == {"kMotorDriverFault", "kEncoderFault", "kConfigChanged"}
PwmOff == <<0, 0, 0>>
\* duties a running mode may compute, all within [d_min, d_max]
Duties == {<<d_min, d_min, d_min>>, <<d_min, 2, d_max>>,
           <<d_max, 2, d_min>>, <<d_max, d_max, d_max>>}
ServoEvent(step, arg) ==
  [step |-> step, arg |-> arg, was |-> servo_mode, cond |-> fault_cond,
   age |-> cmd_age, zv |-> zv_age]

\* Initial: Stopped, nothing latched, the pre-driver disabled.
InitServo ==
  /\ servo_mode = "kStopped"
  /\ servo_fault = "kSuccess"
  /\ pwm = PwmOff
  /\ drv_enable = 0
  /\ drv_hiz = TRUE
  /\ fault_cond = FALSE
  /\ cmd_age = 0
  /\ cmd_timeout = 1
  /\ zv_age = 0
  /\ servo_ev = [step |-> "none", arg |-> "none", was |-> "kStopped",
                 cond |-> FALSE, age |-> 0, zv |-> 0]

\* On any latch: duties -> 0, pre-driver Hi-Z and enable line dropped,
\* mode -> Fault, code kept.
Latch_KeepEnable(code) ==
  /\ servo_mode' = "kFault"
  /\ servo_fault' = code
  /\ pwm' = PwmOff
  /\ drv_hiz' = TRUE
  /\ UNCHANGED drv_enable
Latch(code) ==
  /\ servo_mode' = "kFault"
  /\ servo_fault' = code
  /\ pwm' = PwmOff
  /\ drv_hiz' = TRUE
  /\ drv_enable' = 0

\* Stopped: idle PWM, driver off.
Stop ==
  /\ servo_mode' = "kStopped"
  /\ servo_fault' = "kSuccess"
  /\ pwm' = PwmOff
  /\ drv_hiz' = TRUE
  /\ drv_enable' = 0

\* Whether a command is taken: in Fault only a stop, and only once the
\* condition has cleared.
Accepted_AnyStop(m) == servo_mode # "kFault" \/ m = "kStopped"
Accepted(m) == servo_mode # "kFault" \/ (m = "kStopped" /\ ~fault_cond)

\* The watchdog has expired for a command of this age.
Expired_OneLate(age, timeout) == age > timeout + 1
WatchdogExpired(age, timeout) == age > timeout

\* BldcServo::Command
Servo_Command(m, timeout) ==
  /\ servo_ev' = ServoEvent("command", m)
  /\ IF ~Accepted(m)
       THEN UNCHANGED <<servo_mode, servo_fault, pwm, drv_enable, drv_hiz,
                        cmd_age, cmd_timeout, zv_age>>
     ELSE IF m = "kStopped"
       THEN /\ Stop
            /\ cmd_age' = 0
            /\ zv_age' = 0
            /\ UNCHANGED cmd_timeout
     ELSE /\ servo_mode' = m
          /\ drv_enable' = 1
          /\ drv_hiz' = FALSE
          /\ cmd_age' = 0
          /\ cmd_timeout' = timeout
          /\ zv_age' = 0
          /\ UNCHANGED <<servo_fault, pwm>>
  /\ UNCHANGED fault_cond
  /\ UNCHANGED notServoVars

\* BldcServo::Fault
Servo_Fault(code) ==
  /\ servo_fault = "kSuccess"
  /\ servo_ev' = ServoEvent("fault", code)
  /\ Latch(code)
  /\ UNCHANGED <<fault_cond, cmd_age, cmd_timeout, zv_age>>
  /\ UNCHANGED notServoVars

\* One control cycle: the fault checks, then the watchdog, then the duties.
Servo_ControlCycle ==
  /\ servo_ev' = ServoEvent("cycle", "none")
  /\ IF servo_mode = "kFault"
       THEN UNCHANGED <<servo_mode, servo_fault, pwm, drv_enable, drv_hiz,
                        cmd_age, zv_age>>
     ELSE IF fault_cond
       THEN /\ Latch("kMotorDriverFault")
            /\ UNCHANGED <<cmd_age, zv_age>>
     ELSE IF servo_mode \in ActiveModes
       THEN /\ cmd_age' = cmd_age + 1
            /\ servo_mode' = (IF WatchdogExpired(cmd_age', cmd_timeout)
                                THEN "kZeroVelocity" ELSE servo_mode)
            /\ pwm' \in Duties
            /\ zv_age' = 0
            /\ UNCHANGED <<servo_fault, drv_enable, drv_hiz>>
     ELSE IF servo_mode = "kZeroVelocity"
       THEN /\ zv_age' = zv_age + 1
            /\ IF zv_age' > ZeroVelocityTimeout
                 THEN Stop
                 ELSE /\ pwm' \in Duties
                      /\ UNCHANGED <<servo_mode, servo_fault, drv_enable,
                                     drv_hiz>>
            /\ UNCHANGED cmd_age
     ELSE UNCHANGED <<servo_mode, servo_fault, pwm, drv_enable, drv_hiz,
                      cmd_age, zv_age>>
  /\ UNCHANGED <<fault_cond, cmd_timeout>>
  /\ UNCHANGED notServoVars

\* the driver asserts or releases its fault pin
FaultCondition ==
  /\ fault_cond' = ~fault_cond
  /\ servo_ev' = ServoEvent("env", "none")
  /\ UNCHANGED <<servo_mode, servo_fault, pwm, drv_enable, drv_hiz, cmd_age,
                 cmd_timeout, zv_age>>
  /\ UNCHANGED notServoVars

Servo_CommandAny ==
  \E m \in CommandModes, t \in WatchdogTimeouts : Servo_Command(m, t)
Servo_FaultAny == \E code \in FaultCodes : Servo_Fault(code)

ServoNext ==
  \/ Servo_CommandAny
  \/ Servo_FaultAny
  \/ Servo_ControlCycle
  \/ FaultCondition


(***************************************************************************)
(* A reader of the UART encoder's status slot                              *)
(***************************************************************************)
\* The slot is the aux::UartEncoder::Status that ISR_Update stores into: it
\* has no sequence field, so the reader reads the payload field by field.
NoSampleRead == [value |-> 0, active |-> FALSE, aksim2_err |-> FALSE,
                 aksim2_warn |-> FALSE, nonce |-> 0]

InitReader ==
  /\ rd_pc = "idle"
  /\ rd_sample = NoSampleRead
  /\ rd_commit = 0

Reader_ReadValue ==
  /\ rd_pc = "idle"
  /\ rd_sample' = [NoSampleRead EXCEPT !.value = status.value]
  /\ rd_commit' = status.nonce
  /\ rd_pc' = "value"
  /\ UNCHANGED uartVars
  /\ UNCHANGED notReaderVars

Reader_ReadFlags ==
  /\ rd_pc = "value"
  /\ rd_sample' = [rd_sample EXCEPT !.active = status.active,
                                    !.aksim2_err = status.aksim2_err,
                                    !.aksim2_warn = status.aksim2_warn]
  /\ rd_pc' = "flags"
  /\ UNCHANGED <<rd_commit, uartVars>>
  /\ UNCHANGED notReaderVars

Reader_ReadNonce ==
  /\ rd_pc = "flags"
  /\ rd_sample' = [rd_sample EXCEPT !.nonce = status.nonce]
  /\ rd_pc' = "done"
  /\ UNCHANGED <<rd_commit, uartVars>>
  /\ UNCHANGED notReaderVars

\* the sample is used and the reader starts over
Reader_Consume ==
  /\ rd_pc = "done"
  /\ rd_pc' = "idle"
  /\ rd_sample' = NoSampleRead
  /\ rd_commit' = 0
  /\ UNCHANGED uartVars
  /\ UNCHANGED notReaderVars

SlotNext ==
  \/ Tick
  \/ EncoderReply
  \/ RxByte
  \/ Aksim2_ISR_Update
  \/ CuiAmt21_ISR_Update
  \/ Reader_ReadValue
  \/ Reader_ReadFlags
  \/ Reader_ReadNonce
  \/ Reader_Consume


(***************************************************************************)
(* GPIO outputs, MoteusEnsureOff and hard_fault_handler_c                  *)
(***************************************************************************)
Ports == {"A", "B", "C", "F"}
Pin(port, n) == [port |-> port, n |-> n]
\* PinName NC: not connected
NC == Pin("NC", 0)

\* FindHardwarePins: the output pins that matter here
FindHardwarePins(family) ==
  IF family = 0
    THEN [drv8323_enable |-> Pin("A", 3), drv8323_hiz |-> Pin("B", 7),
          debug_led1 |-> Pin("F", 0), power_led |-> Pin("F", 1),
          debug1 |-> Pin("C", 14), debug2 |-> Pin("C", 15)]
    ELSE [drv8323_enable |-> Pin("C", 14), drv8323_hiz |-> Pin("C", 15),
          debug_led1 |-> Pin("B", 15), power_led |-> Pin("C", 6),
          debug1 |-> NC, debug2 |-> NC]

g_hw_pins == FindHardwarePins(hw_family)

OutputPins ==
  {p \in {g_hw_pins.drv8323_enable, g_hw_pins.drv8323_hiz,
          g_hw_pins.debug_led1, g_hw_pins.power_led,
          g_hw_pins.debug1, g_hw_pins.debug2} : p.port \in Ports}

\* gpio_write(pin, level)
gpio_write(odr, pin, level) ==
  [odr EXCEPT ![pin.port] = IF level = 1 THEN @ \cup {pin.n}
                            ELSE @ \ {pin.n}]

\* a write of the uint32_t v to port->BSRR: bits 0..15 set pins, bits 16..31
\* reset them
BsrrWrite(odr, port, v) ==
  [odr EXCEPT ![port] =
     (@ \ {n \in 0..15 : Bit(Hi(v), n) = 1})
       \cup {n \in 0..15 : Bit(Lo(v), n) = 1}]

\* (1 << (3 + 16))
kHardFaultBsrr == Shl32(U32Of(1), 3 + 16)

PinHigh(pin) == pin.n \in gpio_odr[pin.port]

\* After reset all outputs are low; the board is of either family.
InitGpio ==
  /\ hw_family \in {0, 1}
  /\ gpio_odr = [p \in Ports |-> {}]
  /\ hf_pc = "running"

GpioUnused == InitGpio /\ hw_family = 0

\* the firmware drives one of its output pins
GpioWrite(pin, level) ==
  /\ hf_pc = "running"
  /\ gpio_odr' = gpio_write(gpio_odr, pin, level)
  /\ gpio_odr' # gpio_odr
  /\ UNCHANGED <<hw_family, hf_pc>>
  /\ UNCHANGED notGpioVars

GpioWriteAny == \E pin \in OutputPins, level \in {0, 1} : GpioWrite(pin, level)

\* the timer interrupts, one of which runs the control loop
TimerIrqs == {"TIM2_IRQn", "TIM3_IRQn", "TIM4_IRQn", "TIM5_IRQn"}

\* MoteusEnsureOff leaving TIM5 enabled
DisabledIrqs_NoTim5 == {"TIM2_IRQn", "TIM3_IRQn", "TIM4_IRQn"}

\* the interrupts MoteusEnsureOff turns off
DisabledIrqs == {"TIM2_IRQn", "TIM3_IRQn", "TIM4_IRQn", "TIM5_IRQn"}

\* MoteusEnsureOff, called by the running firmware or by mbed_die: both
\* pre-driver pins to 0, then NVIC_DisableIRQ of the four timer interrupts
MoteusEnsureOff ==
  /\ hf_pc = "running"
  /\ die_pc \in {"running", "MoteusEnsureOff"}
  /\ gpio_odr' = gpio_write(gpio_write(gpio_odr, g_hw_pins.drv8323_hiz, 0),
                            g_hw_pins.drv8323_enable, 0)
  /\ nvic_en' = nvic_en \ DisabledIrqs
  /\ die_pc' = IF die_pc = "MoteusEnsureOff" THEN "gpio_init_out" ELSE die_pc
  /\ UNCHANGED <<hw_family, hf_pc, die_ms, die_ev, irq_ev>>
  /\ UNCHANGED notDieVars

\* the processor takes a hard fault
HardFault ==
  /\ hf_pc = "running"
  /\ hf_pc' = "handler"
  /\ UNCHANGED <<hw_family, gpio_odr>>
  /\ UNCHANGED notGpioVars

\* hard_fault_handler_c up to its loop: the two BSRR writes
hard_fault_handler_c ==
  /\ hf_pc = "handler"
  /\ gpio_odr' = BsrrWrite(BsrrWrite(gpio_odr, "C", kHardFaultBsrr),
                           "A", kHardFaultBsrr)
  /\ hf_pc' = "loop"
  /\ UNCHANGED hw_family
  /\ UNCHANGED notGpioVars

\* while (1);
HardFaultLoop ==
  /\ hf_pc = "loop"
  /\ UNCHANGED vars

HardFaultNext ==
  \/ GpioWriteAny
  \/ MoteusEnsureOff
  \/ HardFault
  \/ hard_fault_handler_c
  \/ HardFaultLoop


(***************************************************************************)
(* mbed_die                                                                *)
(***************************************************************************)
\* wait_ms(200)
kLedWaitMs == 200

NoLedWrite == [level |-> -1, after |-> 0, first |-> TRUE]
NoIrq == [irq |-> "none", pc |-> "none"]

\* positions of mbed_die at which MoteusEnsureOff has completed
AfterEnsureOff ==
  {"gpio_init_out", "led_off", "wait_off", "led_on", "wait_on"}

\* The firmware runs with any of the timer interrupts enabled.
InitDie ==
  /\ nvic_en \in SUBSET TimerIrqs
  /\ die_pc = "running"
  /\ die_ms = 0
  /\ die_ev = NoLedWrite
  /\ irq_ev = NoIrq

DieUnused == InitDie /\ nvic_en = {"TIM2_IRQn"}

\* an enabled timer interrupt is taken and its handler runs
TimerIrq(irq) ==
  /\ irq \in nvic_en
  /\ irq_ev' = [irq |-> irq, pc |-> die_pc]
  /\ UNCHANGED <<nvic_en, die_pc, die_ms, die_ev>>
  /\ UNCHANGED gpioVars
  /\ UNCHANGED notDieVars

TimerIrqAny == \E irq \in TimerIrqs : TimerIrq(irq)

\* the running firmware drives one of its output pins
FirmwareWrite ==
  /\ die_pc = "running"
  /\ GpioWriteAny

\* mbed_die is called
mbed_die ==
  /\ die_pc = "running"
  /\ die_pc' = "MoteusEnsureOff"
  /\ UNCHANGED <<nvic_en, die_ms, die_ev, irq_ev>>
  /\ UNCHANGED gpioVars
  /\ UNCHANGED notDieVars

\* gpio_init_out(&led, g_hw_pins.debug_led1): an output at 0
Die_LedInit ==
  /\ die_pc = "gpio_init_out"
  /\ gpio_odr' = gpio_write(gpio_odr, g_hw_pins.debug_led1, 0)
  /\ die_pc' = "led_off"
  /\ UNCHANGED <<hw_family, hf_pc, nvic_en, die_ms, die_ev, irq_ev>>
  /\ UNCHANGED notDieVars

\* gpio_write(&led, 0) and gpio_write(&led, 1) of the loop
Die_LedWrite ==
  /\ die_pc \in {"led_off", "led_on"}
  /\ LET level == IF die_pc = "led_on" THEN 1 ELSE 0 IN
       /\ gpio_odr' = gpio_write(gpio_odr, g_hw_pins.debug_led1, level)
       /\ die_ev' = [level |-> level, after |-> die_ms,
                     first |-> die_ev.level = -1]
  /\ die_ms' = 0
  /\ die_pc' = IF die_pc = "led_on" THEN "wait_on" ELSE "wait_off"
  /\ UNCHANGED <<hw_family, hf_pc, nvic_en, irq_ev>>
  /\ UNCHANGED notDieVars

\* wait_ms(200)
Die_Wait ==
  /\ die_pc \in {"wait_off", "wait_on"}
  /\ die_ms' = die_ms + kLedWaitMs
  /\ die_pc' = IF die_pc = "wait_off" THEN "led_on" ELSE "led_off"
  /\ UNCHANGED <<nvic_en, die_ev, irq_ev>>
  /\ UNCHANGED gpioVars
  /\ UNCHANGED notDieVars

DieNext ==
  \/ FirmwareWrite
  \/ TimerIrqAny
  \/ MoteusEnsureOff
  \/ mbed_die
  \/ Die_LedInit
  \/ Die_LedWrite
  \/ Die_Wait


(***************************************************************************)
(* PID                                                                     *)
(*                                                                         *)
(* A float is an integer number of quarter units, or NaN.  The inputs and  *)
(* the configuration are drawn so that every product and quotient Apply    *)
(* forms is exact.                                                         *)
(***************************************************************************)
MaxApplies == 2

\* std::numeric_limits<float>::quiet_NaN()
NaN == 99999

isfinite(x) == x # NaN
FAdd(a, b) == IF a = NaN \/ b = NaN THEN NaN ELSE a + b
FSub(a, b) == IF a = NaN \/ b = NaN THEN NaN ELSE a - b
FMul(a, b) == IF a = NaN \/ b = NaN THEN NaN ELSE a * b
FNeg(a) == IF a = NaN THEN NaN ELSE 0 - a
\* a / n for an int n > 0
FDivInt(a, n) ==
  IF a = NaN THEN NaN
  ELSE IF a >= 0 THEN a \div n ELSE 0 - ((0 - a) \div n)
\* every comparison with a NaN is false
FGt(a, b) == a # NaN /\ b # NaN /\ a > b
FLt(a, b) == a # NaN /\ b # NaN /\ a < b
FAbs(a) == IF a = NaN THEN NaN ELSE IF a < 0 THEN 0 - a ELSE a

\* mjlib::base::Limit(a, min, max)
Limit(a, min, max) ==
  IF FLt(a, min) THEN min
  ELSE IF FGt(a, max) THEN max
  ELSE a

\* PID::State after State::Clear (and after construction)
ClearState ==
  [integral |-> 0, desired |-> NaN, error |-> 0, error_rate |-> 0,
   p |-> 0, d |-> 0, pd |-> 0, command |-> 0]

\* Apply taking the commanded position as it is
ApplyDesired_NoLimit(cfg, st, input_desired, rate_hz) == input_desired

\* First apply max_desired_rate
ApplyDesired(cfg, st, input_desired, rate_hz) ==
  IF cfg.max_desired_rate # 0 /\ isfinite(st.desired)
    THEN LET max_step == FDivInt(cfg.max_desired_rate, rate_hz)
             proposed_step == FSub(input_desired, st.desired)
             actual_step == Limit(proposed_step, FNeg(max_step), max_step)
         IN FAdd(st.desired, actual_step)
    ELSE input_desired

ApplyDesiredRate(cfg, st, input_desired_rate) ==
  IF cfg.max_desired_rate # 0 /\ isfinite(st.desired)
    THEN Limit(input_desired_rate, FNeg(cfg.max_desired_rate),
               cfg.max_desired_rate)
    ELSE input_desired_rate

\* to_update_i after the rate limit
ToUpdateI(cfg, error, rate_hz) ==
  LET max_i_update == FDivInt(cfg.iratelimit, rate_hz)
      to_update_i == FDivInt(FMul(error, cfg.ki), rate_hz)
  IN IF FGt(max_i_update, 0)
       THEN IF FGt(to_update_i, max_i_update) THEN max_i_update
            ELSE IF FLt(to_update_i, FNeg(max_i_update))
                   THEN FNeg(max_i_update)
            ELSE to_update_i
       ELSE to_update_i

\* the clamp of the integral to +/- ilimit
ClampIntegral(cfg, integral) ==
  IF FGt(integral, cfg.ilimit) THEN cfg.ilimit
  ELSE IF FLt(integral, FNeg(cfg.ilimit)) THEN FNeg(cfg.ilimit)
  ELSE integral

\* PID::Apply with the default ApplyOptions (all scales 1): the new State
Apply(cfg, st, measured, input_desired, measured_rate, input_desired_rate, rate_hz) ==
  LET desired == ApplyDesired(cfg, st, input_desired, rate_hz)
      desired_rate == ApplyDesiredRate(cfg, st, input_desired_rate)
      error == FSub(measured, desired)
      error_rate == FSub(measured_rate, desired_rate)
      integral ==
        ClampIntegral(cfg, FAdd(st.integral, ToUpdateI(cfg, error, rate_hz)))
      p == FMul(cfg.kp, error)
      d == FMul(cfg.kd, error_rate)
      pd == FAdd(p, d)
  IN [integral |-> integral, desired |-> desired, error |-> error,
      error_rate |-> error_rate, p |-> p, d |-> d, pd |-> pd,
      command |-> FMul(cfg.sign, FAdd(pd, integral))]

\* the torque command clamped by max_torque
TorqueLimit(command, limit) == Limit(command, FNeg(limit), limit)

Configs ==
  [kp : {1}, ki : {0, 1}, kd : {1}, iratelimit : {-4, 4},
   ilimit : {0, 3}, max_desired_rate : {0, 4}, sign : {-1, 1}]
MaxTorques == {2, 100}
Measureds == {0, NaN}
Desireds == {-8, 0, 8, NaN}
MeasuredRates == {0}
DesiredRates == {0, 8}
RateHzs == {1, 2}

NoPidEvent ==
  [call |-> "none", before |-> ClearState, measured |-> 0,
   input_desired |-> 0, input_desired_rate |-> 0, rate_hz |-> 1,
   to_update_i |-> 0, desired_rate |-> 0, torque |-> 0]

InitPid ==
  /\ config_ \in Configs
  /\ state_ = ClearState
  /\ max_torque \in MaxTorques
  /\ pid_ev = NoPidEvent
  /\ pid_steps = 0

PidUnused ==
  /\ InitPid
  /\ config_ = [kp |-> 1, ki |-> 0, kd |-> 1, iratelimit |-> -4,
                ilimit |-> 0, max_desired_rate |-> 0, sign |-> 1]
  /\ max_torque = 2

\* one control cycle: PID::Apply, then the torque command is clamped
PID_Apply(measured, input_desired, measured_rate, input_desired_rate, rate_hz) ==
  /\ pid_steps < MaxApplies
  /\ state_' = Apply(config_, state_, measured, input_desired,
                     measured_rate, input_desired_rate, rate_hz)
  /\ pid_ev' =
       [call |-> "Apply", before |-> state_, measured |-> measured,
        input_desired |-> input_desired,
        input_desired_rate |-> input_desired_rate, rate_hz |-> rate_hz,
        to_update_i |-> ToUpdateI(config_, state_'.error, rate_hz),
        desired_rate |-> ApplyDesiredRate(config_, state_,
                                          input_desired_rate),
        torque |-> TorqueLimit(state_'.command, max_torque)]
  /\ pid_steps' = pid_steps + 1
  /\ UNCHANGED <<config_, max_torque>>
  /\ UNCHANGED notPidVars

PID_ApplyAny ==
  \E measured \in Measureds, input_desired \in Desireds,
     measured_rate \in MeasuredRates, input_desired_rate \in DesiredRates,
     rate_hz \in RateHzs :
    PID_Apply(measured, input_desired, measured_rate, input_desired_rate,
              rate_hz)

\* PID::State::Clear
PID_Clear ==
  /\ state_ # ClearState
  /\ state_' = ClearState
  /\ pid_ev' = [NoPidEvent EXCEPT !.call = "Clear", !.before = state_]
  /\ UNCHANGED <<config_, max_torque, pid_steps>>
  /\ UNCHANGED notPidVars

PidNext ==
  \/ PID_ApplyAny
  \/ PID_Clear


(***************************************************************************)
(* TorqueModel                                                             *)
(*                                                                         *)
(* Currents and torques are whole numbers of a small unit.  The currents   *)
(* tried in the rotation region are those whose logarithm is a whole       *)
(* number, where log2f_approx and pow2f_approx are taken to be exact.      *)
(***************************************************************************)
abs(x) == IF x < 0 THEN 0 - x ELSE x
max(a, b) == IF a > b THEN a ELSE b
\* std::copysign(magnitude, sign)
copysign(m, s) == IF s < 0 THEN 0 - abs(m) ELSE abs(m)

\* log2f_approx(x) for x = 1, 2, 4, 8, ...
RECURSIVE log2f_approx(_)
log2f_approx(x) == IF x <= 1 THEN 0 ELSE 1 + log2f_approx(x \div 2)

\* pow2f_approx(a) for a whole a >= 0
pow2f_approx(a) == 2 ^ a

IsPow2(x) == x >= 1 /\ 2 ^ log2f_approx(x) = x

\* TorqueModel::current_to_torque
current_to_torque(m, current) ==
  LET rotation_extra ==
        m.torque_scale_ *
          log2f_approx(1 + max(0, abs(current) - m.current_cutoff_A_)
                             * m.current_scale_)
  IN IF abs(current) < m.current_cutoff_A_
       THEN current * m.torque_constant_
       ELSE copysign(m.current_cutoff_A_ * m.torque_constant_
                       + rotation_extra, current)

\* torque_to_current taking every torque as in the linear region
torque_to_current_Linear(m, torque) == torque \div m.torque_constant_

\* TorqueModel::torque_to_current
torque_to_current(m, torque) ==
  LET cutoff_torque == m.current_cutoff_A_ * m.torque_constant_
      a == (abs(torque) - cutoff_torque) \div m.torque_scale_
      rotation_extra == (pow2f_approx(a) - 1) \div m.current_scale_
  IN IF abs(torque) < cutoff_torque
       THEN torque \div m.torque_constant_
       ELSE copysign(m.current_cutoff_A_ + rotation_extra, torque)

TorqueModels ==
  [torque_constant_ : {1, 2, 3}, current_cutoff_A_ : {4, 8},
   current_scale_ : {1}, torque_scale_ : {1, 3}]

\* currents up to twice the cutoff that the model can carry exactly
Currents(m) ==
  {i \in (0 - 2 * m.current_cutoff_A_)..(2 * m.current_cutoff_A_) :
     \/ abs(i) < m.current_cutoff_A_
     \/ IsPow2(1 + (abs(i) - m.current_cutoff_A_) * m.current_scale_)}

InitTm ==
  /\ tm \in TorqueModels
  /\ tm_in = 0
  /\ tm_torque = 0
  /\ tm_back = 0
  /\ tm_pc = "idle"

TmUnused ==
  /\ InitTm
  /\ tm = [torque_constant_ |-> 1, current_cutoff_A_ |-> 4,
           current_scale_ |-> 1, torque_scale_ |-> 1]

\* a current is converted to a torque
TM_current_to_torque(current) ==
  /\ tm_in' = current
  /\ tm_torque' = current_to_torque(tm, current)
  /\ tm_pc' = "torque"
  /\ UNCHANGED <<tm, tm_back>>
  /\ UNCHANGED notTmVars

TM_current_to_torqueAny ==
  \E current \in Currents(tm) : TM_current_to_torque(current)

\* the torque is converted back to a current
TM_torque_to_current ==
  /\ tm_pc = "torque"
  /\ tm_back' = torque_to_current(tm, tm_torque)
  /\ tm_pc' = "current"
  /\ UNCHANGED <<tm, tm_in, tm_torque>>
  /\ UNCHANGED notTmVars

TmNext ==
  \/ TM_current_to_torqueAny
  \/ TM_torque_to_current


(***************************************************************************)
(* ClockManager                                                            *)
(***************************************************************************)
kMaxExtraTrim == 8

\* a reply line, "\r\n" terminated: a number printed with "%" PRIu32 (the
\* two halves of the uint32_t) or with "%d" (the int), or a fixed text
NumberLine(fmt, n) == [kind |-> fmt, num |-> n, text |-> ""]
TextLine(t) == [kind |-> "text", num |-> <<>>, text |-> t]

\* the values timer_->read_us() returns, as uint32_t
ClockTimes == {U32Of(0), U32Of(1000), <<65535, 65535>>}

\* the second token of the command and what std::strtol(s, nullptr, 0)
\* makes of it
TrimArgs == {"0", "5", "-3", "8", "-9", "100", "0x10", "abc", "7z"}
strtol(s) ==
  CASE s = "0" -> 0
    [] s = "5" -> 5
    [] s = "-3" -> -3
    [] s = "8" -> 8
    [] s = "-9" -> -9
    [] s = "100" -> 100
    [] s = "0x10" -> 16
    [] s = "7z" -> 7
    [] OTHER -> 0

min(a, b) == IF a < b THEN a ELSE b

\* UpdateConfig: the trim written to RCC->ICSCR
UpdateConfigTrim(hsi, extra) == max(0, min(127, hsi + extra))

\* SetTrim: the new extra_trim_
SetTrimValue(extra_trim) == max(0 - kMaxExtraTrim, min(kMaxExtraTrim, extra_trim))

\* the first token of the command
ClockCommands == {"us", "trim", "", "bogus"}

NoCommand == [cmd_text |-> "none", value_str |-> ""]

\* the lines ClockManager::Command writes for a command
CommandReply(cmd_text, value_str, us, extra) ==
  IF cmd_text = "us" THEN <<NumberLine("PRIu32", us)>>
  ELSE IF cmd_text = "trim"
    THEN IF value_str = "" THEN <<NumberLine("d", <<extra>>)>>
         ELSE <<TextLine("OK")>>
  ELSE <<TextLine("ERR unknown clock")>>

InitClock ==
  /\ hsitrim \in {64, 125}
  /\ extra_trim_ = 0
  /\ icscr_trim = hsitrim
  /\ clk_cmd = NoCommand
  /\ clk_reply = <<>>

ClockUnused == InitClock /\ hsitrim = 64

\* ClockManager::Command
Clock_Command(cmd_text, value_str, us) ==
  /\ clk_cmd' = [cmd_text |-> cmd_text, value_str |-> value_str]
  /\ clk_reply' = CommandReply(cmd_text, value_str, us, extra_trim_)
  /\ IF cmd_text = "trim" /\ value_str # ""
       THEN /\ extra_trim_' = SetTrimValue(strtol(value_str))
            /\ icscr_trim' = UpdateConfigTrim(hsitrim, extra_trim_')
       ELSE UNCHANGED <<extra_trim_, icscr_trim>>
  /\ UNCHANGED hsitrim
  /\ UNCHANGED notClockVars

Clock_CommandAny ==
  \E cmd_text \in ClockCommands, value_str \in TrimArgs \cup {""},
     us \in ClockTimes :
    Clock_Command(cmd_text, value_str, us)

ClockNext == Clock_CommandAny


(***************************************************************************)
(* Stm32G4Flash                                                            *)
(*                                                                         *)
(* The uint64_t shadow_ and shadow_bits_ are held as their 8 bytes, lowest *)
(* first.  flash_log is the sequence of HAL_FLASH_Program calls made since *)
(* Unlock and supplied the bytes given to ProgramByte since Unlock.        *)
(***************************************************************************)
MaxFlashBytes == 16

\* GetInfo: result.start, 0x807f000
FlashStart == 134737920

ZeroWord == [i \in 0..7 |-> 0]
FullBits == [i \in 0..7 |-> 255]

\* intaddr & ~(0x7) and intaddr & 0x7
ThisShadow(intaddr) == intaddr - (intaddr % 8)
ShadowOffset(intaddr) == intaddr % 8

FlashAddrs == {FlashStart + k : k \in 0..(MaxFlashBytes - 1)}
\* the byte written at an address
ByteAt(intaddr) == ((intaddr - FlashStart) * 73) % 256

\* ProgramByte never flushing a word it leaves
NeedsFlush_Never(this_shadow, start) == FALSE

\* ProgramByte: the buffered word belongs to another double word
NeedsFlush(this_shadow, start) == this_shadow # start /\ start # 0

\* HAL_FLASH_Program(FLASH_TYPEPROGRAM_DOUBLEWORD, shadow_start_, shadow_)
HAL_FLASH_Program(log, start, data) ==
  Append(log, [addr |-> start, data |-> data])

InitFlash ==
  /\ shadow_start_ = 0
  /\ shadow_ = ZeroWord
  /\ shadow_bits_ = ZeroWord
  /\ flash_locked = TRUE
  /\ flash_log = <<>>
  /\ supplied = <<>>
  /\ prog_last = 0

FlashUnused == InitFlash

\* Unlock
Flash_Unlock ==
  /\ flash_locked
  /\ flash_locked' = FALSE
  /\ flash_log' = <<>>
  /\ supplied' = <<>>
  /\ prog_last' = 0
  /\ UNCHANGED <<shadow_start_, shadow_, shadow_bits_>>
  /\ UNCHANGED notFlashVars

\* ProgramByte(ptr, value), the next byte in ascending address order
Flash_ProgramByte(intaddr, value) ==
  /\ ~flash_locked
  /\ intaddr > prog_last
  /\ LET this_shadow == ThisShadow(intaddr)
         offset == ShadowOffset(intaddr)
         flush == NeedsFlush(this_shadow, shadow_start_)
         log1 == IF flush
                   THEN HAL_FLASH_Program(flash_log, shadow_start_, shadow_)
                   ELSE flash_log
         word1 == IF flush THEN ZeroWord ELSE shadow_
         bits1 == IF flush THEN ZeroWord ELSE shadow_bits_
         word2 == [word1 EXCEPT ![offset] = BitOr(@, value)]
         bits2 == [bits1 EXCEPT ![offset] = 255]
     IN IF bits2 = FullBits
          THEN /\ flash_log' = HAL_FLASH_Program(log1, this_shadow, word2)
               /\ shadow_start_' = 0
               /\ shadow_' = ZeroWord
               /\ shadow_bits_' = ZeroWord
          ELSE /\ flash_log' = log1
               /\ shadow_start_' = this_shadow
               /\ shadow_' = word2
               /\ shadow_bits_' = bits2
  /\ supplied' = Append(supplied, [addr |-> intaddr, value |-> value])
  /\ prog_last' = intaddr
  /\ UNCHANGED flash_locked
  /\ UNCHANGED notFlashVars

Flash_ProgramByteAny ==
  \E intaddr \in FlashAddrs : Flash_ProgramByte(intaddr, ByteAt(intaddr))

\* Lock
Flash_Lock ==
  /\ ~flash_locked
  /\ IF shadow_bits_ # ZeroWord
       THEN /\ flash_log' = HAL_FLASH_Program(flash_log, shadow_start_, shadow_)
            /\ shadow_start_' = 0
            /\ shadow_' = ZeroWord
            /\ shadow_bits_' = ZeroWord
       ELSE UNCHANGED <<flash_log, shadow_start_, shadow_, shadow_bits_>>
  /\ flash_locked' = TRUE
  /\ UNCHANGED <<supplied, prog_last>>
  /\ UNCHANGED notFlashVars

FlashNext ==
  \/ Flash_Unlock
  \/ Flash_ProgramByteAny
  \/ Flash_Lock


(***************************************************************************)
(* MA732                                                                   *)
(*                                                                         *)
(* The chip answers each 16 bit frame with what the previous frame asked   *)
(* for: a register's value in the high byte after a read (0x4000) or a     *)
(* write (0x8000) command, the angle otherwise.  ma_sticks holds the       *)
(* registers that take a write.                                            *)
(***************************************************************************)
\* FW = 0x0e, BCT = 0x01
kRegFW == 14
kRegBCT == 1
MaRegisters == {kRegFW, kRegBCT}

\* the angle the chip reports
kMaAngle == 4660

\* SetConfig: desired_filter
desired_filter(filter_us) ==
  IF filter_us <= 64 THEN 51
  ELSE IF filter_us <= 128 THEN 68
  ELSE IF filter_us <= 256 THEN 102
  ELSE IF filter_us <= 1024 THEN 119
  ELSE IF filter_us <= 2048 THEN 136
  ELSE IF filter_us <= 4096 THEN 153
  ELSE IF filter_us <= 8192 THEN 170
  ELSE 187

\* one SPI frame: what spi_.write(word) returns and the chip afterwards
MaFrame(dev, word) ==
  LET cmd == word \div 8192
      reg == (word \div 256) % 32
      value == word % 256
      regs1 == IF cmd = 4 /\ reg \in dev.sticks
                 THEN [dev.regs EXCEPT ![reg] = value]
                 ELSE dev.regs
      out1 == IF cmd \in {2, 4} /\ reg \in MaRegisters
                THEN regs1[reg] * 256
                ELSE kMaAngle
  IN [ret |-> dev.out, dev |-> [regs |-> regs1, out |-> out1,
                                sticks |-> dev.sticks]]

\* MA732::SetRegister: its return value and the chip afterwards
SetRegister(dev, reg, desired) ==
  LET f1 == MaFrame(dev, BitOr(16384, reg * 256))
      f2 == MaFrame(f1.dev, 0)
      current_value == f2.ret \div 256
      f3 == MaFrame(f2.dev, BitOr(BitOr(32768, reg * 256), desired))
      f4 == MaFrame(f3.dev, 0)
      final_value == f4.ret \div 256
  IN IF current_value = desired
       THEN [ret |-> FALSE, dev |-> f2.dev]
       ELSE [ret |-> final_value # desired, dev |-> f4.dev]

\* MA732::SetConfig: its return value and the chip afterwards
SetConfig(dev, options) ==
  LET r1 == SetRegister(dev, kRegFW, desired_filter(options.filter_us))
      r2 == SetRegister(r1.dev, kRegBCT, options.bct)
  IN IF r1.ret THEN [ret |-> TRUE, dev |-> r1.dev]
     ELSE IF r2.ret THEN [ret |-> TRUE, dev |-> r2.dev]
     ELSE [ret |-> FALSE, dev |-> r2.dev]

MaOptions == [filter_us : {64, 65, 1024, 1025, 20000}, bct : {0, 5, 255}]
MaDevice == [regs |-> ma_regs, out |-> ma_out, sticks |-> ma_sticks]

InitMa732 ==
  /\ ma_regs \in [MaRegisters -> {0, 119}]
  /\ ma_out = kMaAngle
  /\ ma_sticks \in SUBSET MaRegisters
  /\ ma_opts = [filter_us |-> 1024, bct |-> 0]
  /\ ma_ret = "none"
  /\ error_ = FALSE

Ma732Unused ==
  /\ InitMa732
  /\ ma_regs = [r \in MaRegisters |-> 0]
  /\ ma_sticks = MaRegisters

\* SetConfig(options), as the constructor calls it
MA732_SetConfig(options) ==
  LET r == SetConfig(MaDevice, options) IN
    /\ ma_regs' = r.dev.regs
    /\ ma_out' = r.dev.out
    /\ ma_opts' = options
    /\ ma_ret' = IF r.ret THEN "true" ELSE "false"
    /\ error_' = r.ret
    /\ UNCHANGED ma_sticks
    /\ UNCHANGED notMa732Vars

MA732_SetConfigAny == \E options \in MaOptions : MA732_SetConfig(options)

\* Sample(): one frame of zeros
MA732_Sample ==
  LET f == MaFrame(MaDevice, 0) IN
    /\ ma_out' = f.dev.out
    /\ UNCHANGED <<ma_regs, ma_sticks, ma_opts, ma_ret, error_>>
    /\ UNCHANGED notMa732Vars

Ma732Next ==
  \/ MA732_SetConfigAny
  \/ MA732_Sample


(***************************************************************************)
(* Stm32GpioInterruptIn                                                    *)
(***************************************************************************)
kMaxCallbacks == 3
kIrqLines == 7

\* Callback()
EmptyCallback == [function |-> "nullptr", data |-> 0, ref_count |-> 0]
kNullEntry == 0

\* STM_PIN(pin)
STM_PIN(pin) == pin.n

\* FindCallback: the index of the entry (kNullEntry for nullptr) and the
\* table afterwards
FindCallback(table, function, data) ==
  LET matches == {i \in 1..kMaxCallbacks :
                    table[i].function = function /\ table[i].data = data}
      empties == {i \in 1..kMaxCallbacks : table[i].function = "nullptr"}
      first(S) == CHOOSE i \in S : \A j \in S : i <= j
  IN IF matches # {}
       THEN [entry |-> first(matches), table |-> table]
     ELSE IF empties # {}
       THEN [entry |-> first(empties),
             table |-> [table EXCEPT ![first(empties)] =
                          [function |-> function, data |-> data,
                           ref_count |-> 0]]]
     ELSE [entry |-> kNullEntry, table |-> table]

\* FindIrqIndex
FindIrqIndex(pin) ==
  LET pin_index == STM_PIN(pin) IN
    IF pin_index <= 4 THEN pin_index
    ELSE IF pin_index <= 9 THEN 5
    ELSE IF pin_index <= 15 THEN 6
    ELSE 0

\* what entry_->ref_count++ through a null entry_ can do: the access
\* faults, or it goes through and the constructor carries on
NullEntryOutcomes == {"fault", "continue"}

ExtiPins == {Pin("A", 0), Pin("A", 5), Pin("B", 6), Pin("C", 10)}
CallbackFunctions == {"f1", "f2"}
CallbackDatas == {0, 1}

NoMake ==
  [pin |-> NC, function |-> "nullptr", data |-> 0, claimed |-> FALSE,
   exhausted |-> FALSE, entry |-> kNullEntry]

InitExti ==
  /\ exti_imr = {}
  /\ entries_ = [i \in 1..kMaxCallbacks |-> EmptyCallback]
  /\ irq_count = [i \in 0..(kIrqLines - 1) |-> 0]
  /\ exti_nvic = {}
  /\ instances = {}
  /\ gi_ret = "none"
  /\ gi_ev = NoMake

ExtiUnused == InitExti

\* Stm32GpioInterruptIn::Make(pin, function, data); an instance it returns
\* is kept by the caller
GI_Make(pin, function, data, outcome) ==
  LET pin_index == STM_PIN(pin)
      claimed == pin_index \in exti_imr
      found == FindCallback(entries_, function, data)
      irq_index == FindIrqIndex(pin)
  IN /\ gi_ret # "fault"
     /\ gi_ev' = [pin |-> pin, function |-> function, data |-> data,
                  claimed |-> claimed,
                  exhausted |-> found.entry = kNullEntry,
                  entry |-> found.entry]
     /\ IF claimed
          THEN \* Something already has this channel.
               /\ gi_ret' = "empty"
               /\ outcome = "continue"
               /\ UNCHANGED <<exti_imr, entries_, irq_count, exti_nvic,
                              instances>>
        ELSE IF found.entry = kNullEntry
          THEN \* the constructor goes through a null entry_; if that does
               \* not fault, the temporary claims the line, Make returns
               \* empty and the destructor releases the line again
               /\ gi_ret' = IF outcome = "fault" THEN "fault" ELSE "empty"
               /\ UNCHANGED <<exti_imr, entries_, irq_count, exti_nvic,
                              instances>>
        ELSE /\ gi_ret' = "instance"
             /\ outcome = "continue"
             /\ entries_' = [found.table EXCEPT
                               ![found.entry].ref_count = @ + 1]
             /\ exti_imr' = exti_imr \cup {pin_index}
             /\ exti_nvic' = exti_nvic \cup {irq_index}
             /\ irq_count' = [irq_count EXCEPT ![irq_index] = @ + 1]
             /\ instances' = instances \cup
                               {[pin |-> pin, entry |-> found.entry]}
     /\ UNCHANGED notExtiVars

GI_MakeAny ==
  \E pin \in ExtiPins, function \in CallbackFunctions,
     data \in CallbackDatas, outcome \in NullEntryOutcomes :
    GI_Make(pin, function, data, outcome)

\* ~Stm32GpioInterruptIn of a live instance
GI_Destroy(inst) ==
  LET pin_index == STM_PIN(inst.pin)
      irq_index == FindIrqIndex(inst.pin)
      count == entries_[inst.entry].ref_count - 1
  IN /\ inst \in instances
     /\ gi_ret # "fault"
     /\ entries_' = [entries_ EXCEPT ![inst.entry] =
                       IF count = 0 THEN EmptyCallback
                       ELSE [@ EXCEPT !.ref_count = count]]
     /\ exti_imr' = exti_imr \ {pin_index}
     /\ exti_nvic' = IF irq_count[irq_index] = 1
                       THEN exti_nvic \ {irq_index}
                       ELSE exti_nvic
     /\ irq_count' = [irq_count EXCEPT ![irq_index] = @ - 1]
     /\ instances' = instances \ {inst}
     /\ gi_ret' = "none"
     /\ gi_ev' = NoMake
     /\ UNCHANGED notExtiVars

GI_DestroyAny == \E inst \in instances : GI_Destroy(inst)

\* an object in the state a move leaves behind: pin_ == NC
MovedFrom == [pin |-> NC, entry |-> kNullEntry]

\* Stm32GpioInterruptIn(Stm32GpioInterruptIn&& rhs): the new object takes
\* the binding of rhs, and rhs is left with pin_ == NC
GI_MoveConstruct(rhs) ==
  /\ rhs \in instances
  /\ gi_ret # "fault"
  /\ instances' = (instances \ {rhs}) \cup {rhs}
  /\ gi_ret' = "moved"
  /\ gi_ev' = NoMake
  /\ UNCHANGED <<exti_imr, entries_, irq_count, exti_nvic>>
  /\ UNCHANGED notExtiVars

\* operator=(Stm32GpioInterruptIn&& rhs): pin_, entry_, reg_in_ and mask_
\* are overwritten with those of rhs, then rhs.pin_ = NC; with
\* target = rhs that leaves the object itself with pin_ == NC
MoveAssign(target, rhs) ==
  [instances |-> (instances \ {target, rhs}) \cup
                   (IF target = rhs THEN {} ELSE {rhs}),
   entries |-> entries_,
   imr |-> exti_imr,
   nvic |-> exti_nvic,
   count |-> irq_count]

\* target = std::move(rhs), target being a live object or one moved from
GI_MoveAssign(target, rhs) ==
  LET after == MoveAssign(target, rhs)
  IN /\ rhs \in instances
     /\ target \in instances \cup {MovedFrom}
     /\ gi_ret # "fault"
     /\ instances' = after.instances
     /\ entries_' = after.entries
     /\ exti_imr' = after.imr
     /\ exti_nvic' = after.nvic
     /\ irq_count' = after.count
     /\ gi_ret' = (IF target \in instances THEN "assigned" ELSE "moved")
     /\ gi_ev' = NoMake
     /\ UNCHANGED notExtiVars

GI_MoveConstructAny == \E rhs \in instances : GI_MoveConstruct(rhs)
GI_MoveAssignAny ==
  \E rhs \in instances, target \in instances \cup {MovedFrom} :
    GI_MoveAssign(target, rhs)

ExtiNext ==
  \/ GI_MakeAny
  \/ GI_DestroyAny

\* Make with callbacks few enough for the table never to fill
GI_MakeFew ==
  \E pin \in ExtiPins, function \in CallbackFunctions :
    GI_Make(pin, function, 0, "continue")

ExtiMoveNext ==
  \/ GI_MakeFew
  \/ GI_DestroyAny
  \/ GI_MoveConstructAny
  \/ GI_MoveAssignAny


(***************************************************************************)
(* CalculateI2cTiming                                                      *)
(*                                                                         *)
(* Times are whole picoseconds, as in the code.  The frequencies tried are *)
(* multiples of 1 kHz, for which 10^12 / hz is 10^9 / (hz / 1000), and the *)
(* peripheral clocks are 8 MHz and up, so that every product formed stays  *)
(* below 2^31.                                                             *)
(***************************************************************************)
kPrescalers == 16

\* 1000000000000ll / hz
PicosPerCycle(hz) == 1000000000 \div (hz \div 1000)

\* x * p / 100ll
Percent(x, p) == ((x \div 100) * p) + (((x % 100) * p) \div 100)

scl_min_low_ps(i2c_mode) ==
  CASE i2c_mode = "kStandard" -> 4700000
    [] i2c_mode = "kFast" -> 1300000
    [] i2c_mode = "kFastPlus" -> 500000

scl_min_high_ps(i2c_mode) ==
  CASE i2c_mode = "kStandard" -> 4000000
    [] i2c_mode = "kFast" -> 600000
    [] i2c_mode = "kFastPlus" -> 260000

data_min_hold_ps(i2c_mode) ==
  CASE i2c_mode = "kStandard" -> 300000
    [] i2c_mode = "kFast" -> 10
    [] i2c_mode = "kFastPlus" -> 10

data_min_setup_ps(i2c_mode) ==
  CASE i2c_mode = "kStandard" -> 250000
    [] i2c_mode = "kFast" -> 100000
    [] i2c_mode = "kFastPlus" -> 50000

i2c_max_hz(i2c_mode) ==
  CASE i2c_mode = "kStandard" -> 100000
    [] i2c_mode = "kFast" -> 400000
    [] i2c_mode = "kFastPlus" -> 1000000

scl_low_percent(i2c_mode) ==
  CASE i2c_mode = "kStandard" -> 54
    [] i2c_mode = "kFast" -> 68
    [] i2c_mode = "kFastPlus" -> 67

\* the requested rate taken as it is
actual_i2c_hz_Unclamped(i2c_hz, max_hz) == i2c_hz

\* std::max<int64_t>(1ll, std::min<int64_t>(i.i2c_hz, i2c_max_hz))
actual_i2c_hz(i2c_hz, max_hz) == max(1, min(i2c_hz, max_hz))

NoTiming ==
  [error |-> 0, prescaler |-> 0, scldel |-> 0, sdadel |-> 0, sclh |-> 0,
   scll |-> 0]

\* detail::TryTimingWithPrescaler, without the packing into timingr
TryTimingWithPrescaler(i, prescaler) ==
  LET t_i2cclk_ps == PicosPerCycle(i.peripheral_hz)
      t_presc_ps == t_i2cclk_ps * (prescaler + 1)
      total_cycle_ps ==
        PicosPerCycle(actual_i2c_hz(i.i2c_hz, i2c_max_hz(i.i2c_mode)))
      desired_scl_low_ps ==
        Percent(total_cycle_ps, scl_low_percent(i.i2c_mode))
      scll == max(scl_min_low_ps(i.i2c_mode), desired_scl_low_ps)
                \div t_presc_ps
      actual_scl_low_ps == (scll + 1) * t_presc_ps
      desired_scl_high_ps == total_cycle_ps - actual_scl_low_ps
      sclh == max(scl_min_high_ps(i.i2c_mode), desired_scl_high_ps)
                \div t_presc_ps
      sdadel == data_min_hold_ps(i.i2c_mode) \div t_presc_ps
      scldel == data_min_setup_ps(i.i2c_mode) \div t_presc_ps
      result == [NoTiming EXCEPT !.prescaler = prescaler]
  IN IF scll > 255
       THEN [result EXCEPT !.scll = scll, !.error = 2]
     ELSE IF sclh > 255
       THEN [result EXCEPT !.scll = scll, !.sclh = sclh, !.error = 3]
     ELSE IF sdadel > 15
       THEN [result EXCEPT !.scll = scll, !.sclh = sclh, !.sdadel = sdadel,
                           !.error = 4]
     ELSE IF scldel > 15
       THEN [result EXCEPT !.scll = scll, !.sclh = sclh, !.sdadel = sdadel,
                           !.scldel = scldel, !.error = 5]
     ELSE [result EXCEPT !.scll = scll, !.sclh = sclh, !.sdadel = sdadel,
                         !.scldel = scldel]

PeripheralHzs == {8000000, 16000000, 48000000, 64000000, 170000000}
I2cHzs == {1000, 10000, 100000, 200000, 400000, 1000000, 2000000}
I2cModes == {"kStandard", "kFast", "kFastPlus"}

\* a TimingInput, before CalculateI2cTiming is called
InitTim ==
  /\ tim_in \in [peripheral_hz : PeripheralHzs, i2c_hz : I2cHzs,
                 i2c_mode : I2cModes]
  /\ tim_prescaler = 0
  /\ tim_result = NoTiming
  /\ tim_pc = "loop"

TimUnused ==
  /\ tim_in = [peripheral_hz |-> 64000000, i2c_hz |-> 100000,
               i2c_mode |-> "kStandard"]
  /\ tim_prescaler = 0
  /\ tim_result = NoTiming
  /\ tim_pc = "loop"

\* CalculateI2cTiming: one turn of the loop over the prescalers
Tim_TryPrescaler ==
  /\ tim_pc = "loop"
  /\ tim_prescaler < kPrescalers
  /\ LET result == TryTimingWithPrescaler(tim_in, tim_prescaler)
     IN IF result.error # 0
          THEN /\ tim_prescaler' = tim_prescaler + 1
               /\ UNCHANGED <<tim_result, tim_pc>>
          ELSE /\ tim_result' = result
               /\ tim_pc' = "returned"
               /\ UNCHANGED tim_prescaler
  /\ UNCHANGED tim_in
  /\ UNCHANGED notTimVars

\* CalculateI2cTiming: no solution was possible with any prescaler
Tim_NoSolution ==
  /\ tim_pc = "loop"
  /\ tim_prescaler = kPrescalers
  /\ tim_result' = [NoTiming EXCEPT !.error = 1]
  /\ tim_pc' = "returned"
  /\ UNCHANGED <<tim_in, tim_prescaler>>
  /\ UNCHANGED notTimVars

TimNext ==
  \/ Tim_TryPrescaler
  \/ Tim_NoSolution


(***************************************************************************)
(* AuxADC                                                                  *)
(*                                                                         *)
(* UpdateConfig runs in the background one statement at a time; the two    *)
(* ISR entry points run to completion between any two of its statements.   *)
(* A value slot is named <<aux, pin>>, an unset pointer is <<>>, and the   *)
(* conversion result of injected rank j + 1 of an ADC is the tag           *)
(* <<adc_num, j>>.  Each pin is wired to one ADC channel of its own.       *)
(***************************************************************************)
kMaxAdcs == 3
kMaxPins == 5
kMaxInjected == 4
MaxUpdates == 2

AuxPorts == 0..1
AuxPins == 0..(kMaxPins - 1)
NullStore == <<>>
NoAuxValue == <<>>

\* the ADC channel a pin is wired to
PinChannel(slot) == 1 + slot[2] + (kMaxPins * slot[1])

NoPinConfig == [adc_num |-> -1, channel |-> -1]
PinOn(aux, i, adc_num) ==
  [adc_num |-> adc_num, channel |-> PinChannel(<<aux, i>>)]

\* AdcConfig{}
NoAdcConfig == [num_channels |-> 0, result_store |-> [j \in AuxPins |-> NullStore]]

\* JSQR == 0: the four rank fields JSQ1..JSQ4 and the bits below JSQ1
NoJsqr == [jsq |-> <<0, 0, 0, 0>>, low |-> 0]

\* AuxInfo{}
NoAuxInfo ==
  [config |-> [i \in AuxPins |-> NoPinConfig],
   value |-> [i \in AuxPins |-> NoAuxValue]]

\* which pins an aux port asks for, and on which ADC
PinSets == {{}, {0}, {1, 3}, {0, 1, 2}, AuxPins}
AdcChoices(aux) ==
  {[i \in AuxPins |-> 0], [i \in AuxPins |-> i % 2],
   [i \in AuxPins |-> IF i = 3 THEN kMaxAdcs ELSE 2]}
AuxConfigs(aux) ==
  {[i \in AuxPins |-> IF i \in S THEN PinOn(aux, i, a[i]) ELSE NoPinConfig] :
     S \in PinSets, a \in AdcChoices(aux)}

NoIsr == [isr |-> "none", started |-> {}, deref |-> {}, during |-> FALSE]

\* AuxADC() and the member initialisers
InitAux ==
  /\ any_adc_ = FALSE
  /\ adc_configs_ = [a \in 0..(kMaxAdcs - 1) |-> NoAdcConfig]
  /\ jsqr = [a \in 0..(kMaxAdcs - 1) |-> NoJsqr]
  /\ aux_info = [k \in AuxPorts |-> NoAuxInfo]
  /\ new_any_adc = FALSE
  /\ aux_pc = [at |-> "idle", i |-> 0, aux |-> 0]
  /\ aux_ev = NoIsr
  /\ aux_updates = 0

AuxAdcUnused == InitAux

AuxAt(at, aux, i) == [at |-> at, i |-> i, aux |-> aux]
InUpdateConfig == aux_pc.at \notin {"idle", "called", "died"}

\* an AuxPort fills in its config and invokes config_update
Aux_SetConfig(k, config) ==
  /\ aux_pc.at = "idle"
  /\ aux_updates < MaxUpdates
  /\ aux_updates' = aux_updates + 1
  /\ aux_info' = [aux_info EXCEPT ![k].config = config]
  /\ aux_pc' = AuxAt("called", 0, 0)
  /\ aux_ev' = NoIsr
  /\ UNCHANGED <<any_adc_, adc_configs_, jsqr, new_any_adc>>
  /\ UNCHANGED notAuxadcVars

\* any_adc_ left as it was
Quiesce_Keep(any) == any

\* any_adc_.store(false)
Quiesce(any) == FALSE

UpdateConfig_Quiesce ==
  /\ aux_pc.at = "called"
  /\ any_adc_' = Quiesce(any_adc_)
  /\ aux_pc' = AuxAt("zero_jsqr", 0, 0)
  /\ UNCHANGED <<adc_configs_, jsqr, aux_info, new_any_adc, aux_ev, aux_updates>>
  /\ UNCHANGED notAuxadcVars

\* adcs_[i]->JSQR = 0
UpdateConfig_ZeroJsqr ==
  /\ aux_pc.at = "zero_jsqr"
  /\ jsqr' = [jsqr EXCEPT ![aux_pc.i] = NoJsqr]
  /\ aux_pc' = [aux_pc EXCEPT !.at = "zero_config"]
  /\ UNCHANGED <<any_adc_, adc_configs_, aux_info, new_any_adc, aux_ev, aux_updates>>
  /\ UNCHANGED notAuxadcVars

\* adc_configs_[i] = {}
UpdateConfig_ZeroConfig ==
  /\ aux_pc.at = "zero_config"
  /\ adc_configs_' = [adc_configs_ EXCEPT ![aux_pc.i] = NoAdcConfig]
  /\ aux_pc' = IF aux_pc.i + 1 < kMaxAdcs
                 THEN AuxAt("zero_jsqr", 0, aux_pc.i + 1)
                 ELSE AuxAt("zero_status", 0, 0)
  /\ UNCHANGED <<any_adc_, jsqr, aux_info, new_any_adc, aux_ev, aux_updates>>
  /\ UNCHANGED notAuxadcVars

\* info.value = {}, for each aux_info in turn, then bool new_any_adc = false
UpdateConfig_ZeroStatus ==
  /\ aux_pc.at = "zero_status"
  /\ aux_info' =
       [aux_info EXCEPT ![aux_pc.aux].value = [i \in AuxPins |-> NoAuxValue]]
  /\ IF aux_pc.aux + 1 \in AuxPorts
       THEN /\ aux_pc' = AuxAt("zero_status", aux_pc.aux + 1, 0)
            /\ UNCHANGED new_any_adc
       ELSE /\ aux_pc' = AuxAt("pin", 0, 0)
            /\ new_any_adc' = FALSE
  /\ UNCHANGED <<any_adc_, adc_configs_, jsqr, aux_ev, aux_updates>>
  /\ UNCHANGED notAuxadcVars

\* the loop head of process_aux_config, and what follows its last turn
NextPin(aux, i) ==
  IF i + 1 < kMaxPins THEN AuxAt("pin", aux, i + 1)
  ELSE IF aux + 1 \in AuxPorts THEN AuxAt("pin", aux + 1, 0)
  ELSE AuxAt("length", 0, 0)

AuxCfg == aux_info[aux_pc.aux].config[aux_pc.i]

\* process_aux_config: one pin up to new_any_adc = true
UpdateConfig_Pin ==
  /\ aux_pc.at = "pin"
  /\ IF AuxCfg.adc_num < 0
       THEN /\ aux_pc' = NextPin(aux_pc.aux, aux_pc.i)
            /\ UNCHANGED new_any_adc
     ELSE IF AuxCfg.adc_num >= kMaxAdcs
       THEN /\ aux_pc' = [aux_pc EXCEPT !.at = "died"]
            /\ UNCHANGED new_any_adc
     ELSE /\ aux_pc' = [aux_pc EXCEPT !.at = "jsqr"]
          /\ new_any_adc' = TRUE
  /\ UNCHANGED <<any_adc_, adc_configs_, jsqr, aux_info, aux_ev, aux_updates>>
  /\ UNCHANGED notAuxadcVars

\* adcs_[cfg.adc_num]->JSQR |= (cfg.channel << pos)
JsqrOr(reg, num_channels, channel) ==
  IF num_channels < kMaxInjected
    THEN [reg EXCEPT !.jsq[num_channels + 1] = BitOr(@, channel)]
    ELSE [reg EXCEPT !.low = BitOr(@, channel)]

UpdateConfig_WriteJsqr ==
  /\ aux_pc.at = "jsqr"
  /\ jsqr' = [jsqr EXCEPT ![AuxCfg.adc_num] =
                JsqrOr(@, adc_configs_[AuxCfg.adc_num].num_channels,
                       AuxCfg.channel)]
  /\ aux_pc' = [aux_pc EXCEPT !.at = "store"]
  /\ UNCHANGED <<any_adc_, adc_configs_, aux_info, new_any_adc, aux_ev, aux_updates>>
  /\ UNCHANGED notAuxadcVars

\* this_adc.result_store[this_adc.num_channels] = value
UpdateConfig_WriteStore ==
  /\ aux_pc.at = "store"
  /\ adc_configs_' =
       [adc_configs_ EXCEPT ![AuxCfg.adc_num].result_store[
          adc_configs_[AuxCfg.adc_num].num_channels] = <<aux_pc.aux, aux_pc.i>>]
  /\ aux_pc' = [aux_pc EXCEPT !.at = "count"]
  /\ UNCHANGED <<any_adc_, jsqr, aux_info, new_any_adc, aux_ev, aux_updates>>
  /\ UNCHANGED notAuxadcVars

\* this_adc.num_channels++; if (this_adc.num_channels > 4) mbed_die()
UpdateConfig_Count ==
  /\ aux_pc.at = "count"
  /\ adc_configs_' = [adc_configs_ EXCEPT ![AuxCfg.adc_num].num_channels = @ + 1]
  /\ aux_pc' = IF adc_configs_[AuxCfg.adc_num].num_channels + 1 > kMaxInjected
                 THEN [aux_pc EXCEPT !.at = "died"]
                 ELSE NextPin(aux_pc.aux, aux_pc.i)
  /\ UNCHANGED <<any_adc_, jsqr, aux_info, new_any_adc, aux_ev, aux_updates>>
  /\ UNCHANGED notAuxadcVars

\* JSQR = JSQR | (((num_channels - 1) & 0x03) << ADC_JSQR_JL_Pos)
UpdateConfig_Length ==
  /\ aux_pc.at = "length"
  /\ jsqr' = [jsqr EXCEPT ![aux_pc.i].low =
                BitOr(@, (adc_configs_[aux_pc.i].num_channels - 1) % 4)]
  /\ aux_pc' = IF aux_pc.i + 1 < kMaxAdcs
                 THEN AuxAt("length", 0, aux_pc.i + 1)
                 ELSE AuxAt("ready", 0, 0)
  /\ UNCHANGED <<any_adc_, adc_configs_, aux_info, new_any_adc, aux_ev, aux_updates>>
  /\ UNCHANGED notAuxadcVars

\* any_adc_.store(new_any_adc)
UpdateConfig_Ready ==
  /\ aux_pc.at = "ready"
  /\ any_adc_' = new_any_adc
  /\ aux_pc' = AuxAt("idle", 0, 0)
  /\ UNCHANGED <<adc_configs_, jsqr, aux_info, new_any_adc, aux_ev, aux_updates>>
  /\ UNCHANGED notAuxadcVars

\* the ADCs whose JADSTART ISR_StartSample sets
Started ==
  IF ~any_adc_ THEN {}
  ELSE {a \in 0..(kMaxAdcs - 1) : adc_configs_[a].num_channels # 0}

Aux_ISR_StartSample ==
  /\ aux_ev' = [isr |-> "start", started |-> Started, deref |-> {},
                during |-> InUpdateConfig]
  /\ UNCHANGED <<any_adc_, adc_configs_, jsqr, aux_info, new_any_adc, aux_pc, aux_updates>>
  /\ UNCHANGED notAuxadcVars

\* the <<adc_num, j>> whose result_store pointer ISR_EndSample writes through
Sampled ==
  IF ~any_adc_ THEN {}
  ELSE {s \in (0..(kMaxAdcs - 1)) \X AuxPins :
          s[2] < adc_configs_[s[1]].num_channels}

StoreOf(s) == adc_configs_[s[1]].result_store[s[2]]

\* value slots after ISR_EndSample: a later write through the same pointer
\* replaces an earlier one
EndSampleValue(slot) ==
  LET writers == {s \in Sampled : StoreOf(s) = slot}
  IN IF writers = {} THEN aux_info[slot[1]].value[slot[2]]
     ELSE CHOOSE s \in writers :
            \A t \in writers :
              t[1] < s[1] \/ (t[1] = s[1] /\ t[2] <= s[2])

Aux_ISR_EndSample ==
  /\ aux_ev' = [isr |-> "end", started |-> {},
                deref |-> {StoreOf(s) : s \in Sampled},
                during |-> InUpdateConfig]
  /\ aux_info' =
       [k \in AuxPorts |->
          [aux_info[k] EXCEPT
             !.value = [i \in AuxPins |-> EndSampleValue(<<k, i>>)]]]
  /\ UNCHANGED <<any_adc_, adc_configs_, jsqr, new_any_adc, aux_pc, aux_updates>>
  /\ UNCHANGED notAuxadcVars

AuxNext ==
  \/ \E k \in AuxPorts : \E config \in AuxConfigs(k) : Aux_SetConfig(k, config)
  \/ UpdateConfig_Quiesce
  \/ UpdateConfig_ZeroJsqr
  \/ UpdateConfig_ZeroConfig
  \/ UpdateConfig_ZeroStatus
  \/ UpdateConfig_Pin
  \/ UpdateConfig_WriteJsqr
  \/ UpdateConfig_WriteStore
  \/ UpdateConfig_Count
  \/ UpdateConfig_Length
  \/ UpdateConfig_Ready
  \/ Aux_ISR_StartSample
  \/ Aux_ISR_EndSample


(***************************************************************************)
(* Specifications                                                          *)
(***************************************************************************)
UartUnused ==
  /\ InitUart /\ mode = "kAksim2" /\ poll_rate_us = 2 /\ t0 = U32Of(0)
  /\ status = FreshStatus

CanUnused == InitCan /\ buf_ = [i \in 1..kBufSize |-> 0]

BusesUnused == CanUnused /\ UartUnused
\* ---- initial states of the further subsystems ----
Ext2Unused ==
  /\ DieUnused
  /\ PidUnused
  /\ TmUnused
  /\ ClockUnused
  /\ FlashUnused
  /\ Ma732Unused
  /\ ExtiUnused
  /\ RdUnused
  /\ UqUnused
  /\ I2crxUnused
  /\ TimUnused
  /\ AuxAdcUnused
ExceptDieUnused ==
  /\ PidUnused
  /\ TmUnused
  /\ ClockUnused
  /\ FlashUnused
  /\ Ma732Unused
  /\ ExtiUnused
  /\ RdUnused
  /\ UqUnused
  /\ I2crxUnused
  /\ TimUnused
  /\ AuxAdcUnused
ExceptPidUnused ==
  /\ DieUnused
  /\ TmUnused
  /\ ClockUnused
  /\ FlashUnused
  /\ Ma732Unused
  /\ ExtiUnused
  /\ RdUnused
  /\ UqUnused
  /\ I2crxUnused
  /\ TimUnused
  /\ AuxAdcUnused
ExceptTmUnused ==
  /\ DieUnused
  /\ PidUnused
  /\ ClockUnused
  /\ FlashUnused
  /\ Ma732Unused
  /\ ExtiUnused
  /\ RdUnused
  /\ UqUnused
  /\ I2crxUnused
  /\ TimUnused
  /\ AuxAdcUnused
ExceptClockUnused ==
  /\ DieUnused
  /\ PidUnused
  /\ TmUnused
  /\ FlashUnused
  /\ Ma732Unused
  /\ ExtiUnused
  /\ RdUnused
  /\ UqUnused
  /\ I2crxUnused
  /\ TimUnused
  /\ AuxAdcUnused
ExceptFlashUnused ==
  /\ DieUnused
  /\ PidUnused
  /\ TmUnused
  /\ ClockUnused
  /\ Ma732Unused
  /\ ExtiUnused
  /\ RdUnused
  /\ UqUnused
  /\ I2crxUnused
  /\ TimUnused
  /\ AuxAdcUnused
ExceptMa732Unused ==
  /\ DieUnused
  /\ PidUnused
  /\ TmUnused
  /\ ClockUnused
  /\ FlashUnused
  /\ ExtiUnused
  /\ RdUnused
  /\ UqUnused
  /\ I2crxUnused
  /\ TimUnused
  /\ AuxAdcUnused
ExceptExtiUnused ==
  /\ DieUnused
  /\ PidUnused
  /\ TmUnused
  /\ ClockUnused
  /\ FlashUnused
  /\ Ma732Unused
  /\ RdUnused
  /\ UqUnused
  /\ I2crxUnused
  /\ TimUnused
  /\ AuxAdcUnused
ExceptRdUnused ==
  /\ DieUnused
  /\ PidUnused
  /\ TmUnused
  /\ ClockUnused
  /\ FlashUnused
  /\ Ma732Unused
  /\ ExtiUnused
  /\ UqUnused
  /\ I2crxUnused
  /\ TimUnused
  /\ AuxAdcUnused
ExceptUqUnused ==
  /\ DieUnused
  /\ PidUnused
  /\ TmUnused
  /\ ClockUnused
  /\ FlashUnused
  /\ Ma732Unused
  /\ ExtiUnused
  /\ RdUnused
  /\ I2crxUnused
  /\ TimUnused
  /\ AuxAdcUnused
ExceptI2crxUnused ==
  /\ DieUnused
  /\ PidUnused
  /\ TmUnused
  /\ ClockUnused
  /\ FlashUnused
  /\ Ma732Unused
  /\ ExtiUnused
  /\ RdUnused
  /\ UqUnused
  /\ TimUnused
  /\ AuxAdcUnused
ExceptTimUnused ==
  /\ DieUnused
  /\ PidUnused
  /\ TmUnused
  /\ ClockUnused
  /\ FlashUnused
  /\ Ma732Unused
  /\ ExtiUnused
  /\ RdUnused
  /\ UqUnused
  /\ I2crxUnused
  /\ AuxAdcUnused
ExceptAuxadcUnused ==
  /\ DieUnused
  /\ PidUnused
  /\ TmUnused
  /\ ClockUnused
  /\ FlashUnused
  /\ Ma732Unused
  /\ ExtiUnused
  /\ RdUnused
  /\ UqUnused
  /\ I2crxUnused
  /\ TimUnused
\* ---- end of initial states of the further subsystems ----
PeripheralsUnused ==
  /\ InitSpi /\ IndexUnused /\ QuadUnused /\ InitI2c /\ InitServo /\ InitReader
AuxUnused ==
  /\ PeripheralsUnused
  /\ GpioUnused
  /\ Ext2Unused

InitCanWrite == InitCan /\ UartUnused /\ AuxUnused
InitCanRead == CanUnused /\ UartUnused /\ AuxUnused
InitUartOnly == InitUart /\ CanUnused /\ AuxUnused
InitSpiOnly ==
  /\ InitSpi /\ BusesUnused
  /\ IndexUnused /\ QuadUnused /\ InitI2c /\ InitServo /\ InitReader
  /\ GpioUnused
  /\ Ext2Unused
InitIndexOnly ==
  /\ InitIndex /\ BusesUnused
  /\ InitSpi /\ QuadUnused /\ InitI2c /\ InitServo /\ InitReader
  /\ GpioUnused
  /\ Ext2Unused
InitQuadSwOnly ==
  /\ InitQuadSw /\ BusesUnused
  /\ InitSpi /\ IndexUnused /\ InitI2c /\ InitServo /\ InitReader
  /\ GpioUnused
  /\ Ext2Unused
InitQuadHwOnly ==
  /\ InitQuadHw /\ BusesUnused
  /\ InitSpi /\ IndexUnused /\ InitI2c /\ InitServo /\ InitReader
  /\ GpioUnused
  /\ Ext2Unused
InitI2cOnly ==
  /\ InitI2c /\ BusesUnused
  /\ InitSpi /\ IndexUnused /\ QuadUnused /\ InitServo /\ InitReader
  /\ GpioUnused
  /\ Ext2Unused
InitServoOnly ==
  /\ InitServo /\ BusesUnused
  /\ InitSpi /\ IndexUnused /\ QuadUnused /\ InitI2c /\ InitReader
  /\ GpioUnused
  /\ Ext2Unused
InitSlot ==
  /\ InitUart /\ poll_rate_us = 2 /\ t0 = U32Of(0)
  /\ CanUnused
  /\ InitSpi /\ IndexUnused /\ QuadUnused /\ InitI2c /\ InitServo
  /\ InitReader
  /\ GpioUnused
  /\ Ext2Unused
InitGpioOnly ==
  /\ InitGpio /\ BusesUnused
  /\ InitSpi /\ IndexUnused /\ QuadUnused /\ InitI2c /\ InitServo
  /\ InitReader
  /\ Ext2Unused

InitDieOnly ==
  /\ InitDie /\ InitGpio /\ BusesUnused /\ PeripheralsUnused
  /\ ExceptDieUnused

InitPidOnly ==
  /\ InitPid /\ BusesUnused /\ PeripheralsUnused /\ GpioUnused
  /\ ExceptPidUnused

InitTmOnly ==
  /\ InitTm /\ BusesUnused /\ PeripheralsUnused /\ GpioUnused
  /\ ExceptTmUnused

InitClockOnly ==
  /\ InitClock /\ BusesUnused /\ PeripheralsUnused /\ GpioUnused
  /\ ExceptClockUnused

InitFlashOnly ==
  /\ InitFlash /\ BusesUnused /\ PeripheralsUnused /\ GpioUnused
  /\ ExceptFlashUnused

InitMa732Only ==
  /\ InitMa732 /\ BusesUnused /\ PeripheralsUnused /\ GpioUnused
  /\ ExceptMa732Unused

InitExtiOnly ==
  /\ InitExti /\ BusesUnused /\ PeripheralsUnused /\ GpioUnused
  /\ ExceptExtiUnused

\* replies: SetPrefix and AsyncWrite
SpecCanWrite == InitCanWrite /\ [][CanWriteNext]_vars

\* identifiers: SetPrefix and one AsyncWrite
SpecCanId == InitCanRead /\ [][CanIdNext]_vars

\* requests: SetPrefix, AsyncRead and Poll
SpecCanRead == InitCanRead /\ [][CanReadNext]_vars

SpecUart == InitUartOnly /\ [][UartNext]_vars

\* One CUI AMT21 query whose three reply bytes have arrived, for every
\* reply word: the echoed address, then the word, low byte first.
MaxWord == 65535

InitCuiWord ==
  /\ CanUnused
  /\ AuxUnused
  /\ mode = "kCuiAmt21"
  /\ poll_rate_us = 2
  /\ t0 = U32Of(0)
  /\ now_us = U32Of(2)
  /\ query_outstanding_ = TRUE
  /\ last_query_start_us_ = U32Of(2)
  /\ \E w \in 0..MaxWord :
       buffer_ = <<kCuiAddress, w % 256, (w \div 256) % 256, 0, 0, 0>>
  /\ cndtr = kResyncBytes
  /\ dma_en = TRUE
  /\ enc_req = FALSE
  /\ wire = <<>>
  /\ status = FreshStatus
  /\ ev = NoEvent

CuiWordNext == CuiAmt21_ISR_Update

SpecCuiWord == InitCuiWord /\ [][CuiWordNext]_vars

SpecSpi == InitSpiOnly /\ [][SpiNext]_vars

SpecIndex == InitIndexOnly /\ [][IndexNext]_vars

\* software quadrature: pin changes and ISR_Callback
SpecQuadSw == InitQuadSwOnly /\ [][QuadSwNext]_vars

\* hardware quadrature: the timer counts and ISR_Update
SpecQuadHw == InitQuadHwOnly /\ [][QuadHwNext]_vars

\* a quadrature source of either kind
InitQuadOnly == InitQuadSwOnly \/ InitQuadHwOnly
SpecQuad == InitQuadOnly /\ [][QuadNext]_vars

SpecI2c == InitI2cOnly /\ [][I2cNext]_vars

SpecServo == InitServoOnly /\ [][ServoNext]_vars

\* the UART encoder committing into its status slot while a reader reads it
SpecSlot == InitSlot /\ [][SlotNext]_vars

\* the firmware driving its output pins, then a hard fault
SpecHardFault == InitGpioOnly /\ [][HardFaultNext]_vars

\* the firmware running with its timer interrupts, then mbed_die
SpecDie == InitDieOnly /\ [][DieNext]_vars

\* control cycles of one PID
SpecPid == InitPidOnly /\ [][PidNext]_vars

\* currents converted to torque and back
SpecTorque == InitTmOnly /\ [][TmNext]_vars

\* clock commands
SpecClock == InitClockOnly /\ [][ClockNext]_vars

\* one Unlock, bytes in ascending address order, Lock
SpecFlash == InitFlashOnly /\ [][FlashNext]_vars

\* the MA732 being configured
SpecMa732 == InitMa732Only /\ [][Ma732Next]_vars

\* pin interrupts being made and destroyed
SpecExti == InitExtiOnly /\ [][ExtiNext]_vars

\* Make, the two moves and the destructor
SpecExtiMove == InitExtiOnly /\ [][ExtiMoveNext]_vars

InitTimOnly ==
  /\ InitTim /\ BusesUnused /\ PeripheralsUnused /\ GpioUnused
  /\ ExceptTimUnused

\* CalculateI2cTiming on one TimingInput
SpecTiming == InitTimOnly /\ [][TimNext]_vars


InitAuxOnly ==
  /\ InitAux /\ BusesUnused /\ PeripheralsUnused /\ GpioUnused
  /\ ExceptAuxadcUnused

\* AuxADC: reconfiguration in the background, sampling in the ISR
SpecAuxAdc == InitAuxOnly /\ [][AuxNext]_vars


(***************************************************************************)
(* Properties of FDCanMicroServer                                          *)
(***************************************************************************)
DlcSizes == {0, 1, 2, 3, 4, 5, 6, 7, 8, 12, 16, 20, 24, 32, 48, 64}
SmallestDlc(n) == CHOOSE d \in DlcSizes :
                    d >= n /\ \A e \in DlcSizes : e >= n => d <= e
Wrote == writes > 0
WriteSize == Len(wr.data)

\* C1: for every payload size n with 0 <= n <= 64 that AsyncWrite is called
\* with, RoundUpDlc(n) is the smallest value of
\* {0,1,2,3,4,5,6,7,8,12,16,20,24,32,48,64} that is >= n.
C1_RoundUpDlcSmallest ==
  (Wrote /\ WriteSize <= 64) =>
    /\ RoundUpDlc(WriteSize) = SmallestDlc(WriteSize)
    /\ Len(tx[1].data) = SmallestDlc(WriteSize)

C1_Witness == Wrote /\ WriteSize = 17 /\ Len(tx[1].data) = 20

\* C2: after an AsyncWrite of n <= 64 bytes, exactly one frame was handed
\* to FDCan::Send; it is RoundUpDlc(n) long, its first n bytes are the
\* payload in order and all bytes after them are 0x50; the callback was
\* invoked exactly once, with no error and size n.
C2_PaddedFrame ==
  (Wrote /\ WriteSize <= 64) =>
    /\ Len(tx) = 1
    /\ Len(tx[1].data) = RoundUpDlc(WriteSize)
    /\ \A i \in 1..WriteSize : tx[1].data[i] = wr.data[i]
    /\ \A i \in (WriteSize + 1)..Len(tx[1].data) : tx[1].data[i] = 80
    /\ write_cb = <<[ec |-> 0, size |-> WriteSize]>>

C2_Witness ==
  /\ Wrote /\ WriteSize = 33 /\ Len(tx[1].data) = 48
  /\ tx[1].data[33] = wr.data[33] /\ tx[1].data[34] = 80

\* C3: the identifier AsyncWrite sends is (prefix<<16) | (source<<8) |
\* destination, of the low 8 bits of source and destination and truncated
\* to 32 bits, and Poll's decoding of it gives back those low 8 bits.
C3_IdRoundTrip ==
  Wrote =>
    /\ tx[1].id = <<Lo(wr.prefix), ((wr.source % 256) * 256) + (wr.destination % 256)>>
    /\ PollDestination(tx[1].id) = wr.destination % 256
    /\ PollSource(tx[1].id) = wr.source % 256

C3_Witness ==
  /\ Wrote /\ wr.source = WideSource /\ wr.destination = WideDestination
  /\ wr.prefix = <<43981, 4660>>
  /\ PollSource(tx[1].id) = 129 /\ PollDestination(tx[1].id) = 2

\* C4: when AsyncWrite is given more than 64 bytes, the frame sent is the
\* payload truncated to at most 64 bytes and no byte is stored outside buf_.
C4_NoOverrun ==
  (Wrote /\ WriteSize > kMaxSize) =>
    /\ Len(tx[1].data) <= kMaxSize
    /\ \A i \in 1..Len(tx[1].data) : tx[1].data[i] = wr.data[i]
    /\ overrun = 0

(***************************************************************************)
(* Properties of the UART encoders                                         *)
(***************************************************************************)
XorOfBits(w, bits) == Cardinality({b \in bits : Bit(w, b) = 1}) % 2
OddBits == {1, 3, 5, 7, 9, 11, 13}
EvenBits == {0, 2, 4, 6, 8, 10, 12}
\* the acceptance rule of the AMT21 data sheet
ParityRule(w) ==
  /\ Bit(w, 15) = 1 - XorOfBits(w, OddBits)
  /\ Bit(w, 14) = 1 - XorOfBits(w, EvenBits)

IsrStep == ev'.proc # "none"
Delta == Sub32(now_us, last_query_start_us_)
Expired == Lt32(U32Of(2 * poll_rate_us), Delta)
Due == ~Lt32(Delta, U32Of(poll_rate_us))
\* CNDTR at the second read of read_bytes_remaining(): a byte taken from
\* the line during the call has been stored
Rem2 == IF wire' # wire THEN cndtr - 1 ELSE cndtr
Marker == IF mode = "kAksim2" THEN 100 ELSE 84
ReplyWord == buffer_[2] + 256 * buffer_[3]
\* a reply is there to look at: enough bytes, and room left in the buffer
Framed ==
  /\ query_outstanding_ /\ ~Expired
  /\ cndtr <= kResyncBytes /\ Rem2 > 0
Validated ==
  /\ Framed /\ buffer_[1] = Marker
  /\ mode = "kCuiAmt21" => ParityRule(ReplyWord)
ParityFailed ==
  /\ mode = "kCuiAmt21" /\ Framed /\ buffer_[1] = Marker
  /\ ~ParityRule(ReplyWord)
FreshQuery ==
  /\ query_outstanding_' /\ last_query_start_us_' = now_us
  /\ cndtr' = BufferSize(mode) /\ dma_en' /\ enc_req'
Retired == ~query_outstanding_' /\ ~dma_en'

\* C5: an ISR_Update that finds a query outstanding for more than
\* 2 x poll_rate_us aborts it and issues a fresh query in the same call;
\* so after every ISR_Update an outstanding query is at most 2 x
\* poll_rate_us old.
C5_TimeoutReissues ==
  [][IsrStep =>
       /\ (query_outstanding_ /\ Expired) => (ev'.proc = "timeout" /\ FreshQuery)
       /\ query_outstanding_' =>
            ~Lt32(U32Of(2 * poll_rate_us), Sub32(now_us', last_query_start_us_'))
    ]_vars

C5_Witness ==
  /\ ev.proc = "timeout" /\ ev.issued /\ query_outstanding_
  /\ last_query_start_us_ = now_us /\ cndtr = BufferSize(mode) /\ dma_en

\* C6: after an ISR_Update in which the query timed out, or in which a CUI
\* AMT21 reply failed its parity check, status.active is false.
C6_InactiveOnFailure ==
  [][(IsrStep /\ ((query_outstanding_ /\ Expired) \/ ParityFailed))
       => ~status'.active]_vars

\* C7: status.nonce changes in a step exactly when that step is an
\* ISR_Update that commits status.value from a validated reply, and then by
\* +1 modulo 256; every other call and every other step leave nonce and
\* value alone.
C7_NonceIffCommit ==
  [][IF IsrStep /\ Validated
     THEN /\ status'.nonce = (status.nonce + 1) % 256
          /\ status'.nonce # status.nonce
          /\ status'.value = (IF mode = "kAksim2"
                              THEN (buffer_[2] * 65536 + buffer_[3] * 256
                                    + buffer_[4]) \div 4
                              ELSE ReplyWord % 16384)
     ELSE /\ status'.nonce = status.nonce
          /\ status'.value = status.value
    ]_vars

C7_Witness == ev.proc = "commit" /\ status.nonce = 0 /\ status.active

\* C8: a CUI AMT21 reply word w is accepted exactly when bit 15 is the
\* complement of the XOR of bits 1,3,..,13 and bit 14 the complement of the
\* XOR of bits 0,2,..,12; an accepted word sets status.value to w & 0x3fff.
C8_ParityAccept ==
  [][(IsrStep /\ Framed /\ buffer_[1] = kCuiAddress) =>
       /\ (status'.nonce # status.nonce) <=> ParityRule(ReplyWord)
       /\ ParityRule(ReplyWord) =>
            /\ status'.value = ReplyWord % 16384
            /\ status'.active
    ]_vars

C8_Witness == ev.proc = "commit" /\ status.value = 16383 /\ status.nonce = 1

\* C9: on a CUI AMT21 parity mismatch checksum_errors goes up by one (as a
\* uint16_t), no other field of status changes, and the query is retired:
\* the read DMA is stopped and either no query is outstanding or the next
\* one was issued in the same call.
C9_ParityMismatch ==
  [][(IsrStep /\ ParityFailed) =>
       /\ status' = [status EXCEPT
                       !.checksum_errors = (status.checksum_errors + 1) % 65536]
       /\ Retired \/ FreshQuery
       /\ Due <=> FreshQuery
    ]_vars

C9_Witness ==
  /\ ev.proc = "parity_fail" /\ status.checksum_errors = 1
  /\ ~query_outstanding_ /\ ~dma_en

\* C10: an AkSIM-2 call changes status only when the first byte received
\* is 'd' and at least 6 bytes have arrived.  While the first byte is not
\* 'd' status is left alone and the query stays outstanding until the 9
\* byte buffer is full or the timeout expires; then it is dropped, and a
\* new query is issued as soon as poll_rate_us has passed since the dropped
\* one was started.
C10_Aksim2Marker ==
  [][(IsrStep /\ mode = "kAksim2") =>
       /\ status' # status =>
            (buffer_[1] = 100 /\ BufferSize(mode) - cndtr >= 6)
       /\ (query_outstanding_ /\ cndtr < BufferSize(mode) /\ buffer_[1] # 100) =>
            /\ status' = status
            /\ IF Expired \/ Rem2 = 0
               THEN /\ ev'.proc \in {"timeout", "resync_drop"}
                    /\ IF Due THEN FreshQuery ELSE Retired
               ELSE /\ query_outstanding_'
                    /\ last_query_start_us_' = last_query_start_us_
                    /\ dma_en'
    ]_vars

C10_Witness ==
  /\ mode = "kAksim2" /\ ev.proc = "resync_drop" /\ buffer_[1] # 100
  /\ buffer_[2] = 100 /\ status = FreshStatus

(***************************************************************************)
(* Properties of the AS5047                                                *)
(***************************************************************************)
Returned14 == (spi_dr % 16384) * 4

\* C11: every AS5047 read path returns the 14 bit reading shifted left by
\* two: after Sample() and after FinishSample() alike, the value returned
\* for the response word r is (r & 0x3fff) << 2.
C11_ShiftedReading ==
  as5047.call \in {"Sample", "FinishSample"} => as5047.ret = Returned14


(***************************************************************************)
(* Properties of Stm32Index                                                *)
(***************************************************************************)
IndexUpdated == idx_ev.kind = "update"
CallbackSawHigh == idx_ev.owed # "no"

\* C12: a callback that read the index pin high is held until the next latch
\* exchange and gives raw = true in the ISR_Update of that exchange, also
\* when the callback ran between the exchange and the live read of the
\* update before; a pin that is high at the live read gives raw = true too.
C12_PulseNotMissed ==
  /\ idx_seen # "no" => observed_
  /\ IndexUpdated /\ (CallbackSawHigh \/ idx_ev.live) => idx_status.raw

\* a pulse that ended before the live read, seen only by a callback that
\* interleaved with the update before
C12_Witness ==
  /\ IndexUpdated
  /\ idx_ev.owed = "mid"
  /\ ~idx_ev.live
  /\ idx_status.raw


(***************************************************************************)
(* Properties of Stm32Quadrature                                           *)
(***************************************************************************)
\* the steps of the cycle 00 -> 01 -> 11 -> 10 -> 00, as <<previous, new>>
CycleSteps == {<<0, 1>>, <<1, 3>>, <<3, 2>>, <<2, 0>>}
OnePinChanged(p, n) == <<p, n>> \in CycleSteps \/ <<n, p>> \in CycleSteps
BothPinsChanged(p, n) == p # n /\ ~OnePinChanged(p, n)
CycleSign == kQuadUpdate[QuadIndex(0, 1) + 1]
StepOf(p, n) ==
  IF <<p, n>> \in CycleSteps THEN CycleSign
  ELSE IF <<n, p>> \in CycleSteps THEN 0 - CycleSign
  ELSE 0
CountMoved(d) == q_status.value = (q_ev.old_value + d + q_cpr) % q_cpr
CalledBack == q_ev.kind = "callback"

\* C13: ISR_Callback leaves the count alone when the two-pin state is
\* unchanged, moves it by +1 or -1 (modulo cpr) when one pin changed, with
\* one sign for the four steps of the cycle 00->01->11->10->00 and the
\* other sign for their reverses, and leaves it alone with status.error
\* incremented by one when both pins changed.
C13_QuadratureTable ==
  CalledBack =>
    /\ CycleSign \in {1, -1}
    /\ CountMoved(StepOf(q_ev.old_pins, q_status.pins))
    /\ q_status.error =
         (IF BothPinsChanged(q_ev.old_pins, q_status.pins)
            THEN (q_ev.old_error + 1) % U16
            ELSE q_ev.old_error)

\* the fourth step of a full cycle, back to 00, on a count that wraps
C13_Witness ==
  /\ CalledBack
  /\ q_steps = 4
  /\ q_ev.old_pins = 2 /\ q_status.pins = 0
  /\ q_cpr = 3
  /\ q_status.value = (q_ev.old_value + CycleSign) % q_cpr
  /\ q_status.value < q_ev.old_value


HwUpdated == q_ev.kind = "update"

\* C14: in hardware quadrature mode ISR_Update sets status.value to
\* (previous value + delta) mod cpr, delta being the signed 16 bit
\* difference of the timer counter, for every delta, every previous value
\* in [0, cpr) and every cpr > 0.
C14_DeltaModCpr ==
  HwUpdated =>
    /\ q_ev.delta \in -32768..32767
    /\ q_status.value = (q_ev.old_value + q_ev.delta) % q_cpr


(***************************************************************************)
(* Properties of Stm32I2c                                                  *)
(***************************************************************************)
Polled == i2c_ev.call = "Poll"
CheckedError == i2c_ev.call = "CheckRead" /\ i2c_ev.was = "kError"

\* C15: a Poll that finds a NACK or a lost arbitration flagged during a
\* transaction aborts it (mode kError, busy() false), and the CheckRead
\* that finds kError re-initializes the controller, reports kError and
\* leaves the driver in kIdle.
C15_FaultAborts ==
  /\ Polled /\ i2c_ev.fault => mode_ = "kError" /\ ~busy
  /\ CheckedError =>
       /\ i2c_ev.reinit
       /\ i2c_ev.ret = "kError"
       /\ mode_ = "kIdle"


(***************************************************************************)
(* Properties of BldcServo                                                 *)
(***************************************************************************)
FaultLatched == servo_fault # "kSuccess"
InFault == servo_mode = "kFault"

\* C16: whenever a fault is latched, all three PWM duties are <= d_min and
\* the pre-driver enable pin is low.
C16_FaultOutputsOff ==
  FaultLatched =>
    /\ \A i \in 1..3 : pwm[i] <= d_min
    /\ drv_enable = 0

\* a fault latched by a control cycle while a mode was driving the motor
C16_Witness ==
  /\ FaultLatched
  /\ servo_ev.step = "cycle"
  /\ servo_ev.was \in ActiveModes
  /\ drv_enable = 0

\* C17: once a fault is latched the mode stays Fault: the only step that
\* leaves Fault is a stop command taken when the fault condition has
\* cleared; no other command and no control cycle leaves it.
C17_FaultUntilStop ==
  [][InFault /\ ~InFault' =>
       /\ servo_ev'.step = "command"
       /\ servo_ev'.arg = "kStopped"
       /\ ~fault_cond
       /\ servo_mode' = "kStopped"]_vars

\* a stop that clears the fault after the condition has gone
C17_Witness ==
  /\ servo_ev.step = "command"
  /\ servo_ev.arg = "kStopped"
  /\ servo_ev.was = "kFault"
  /\ servo_mode = "kStopped"
  /\ ~FaultLatched

WatchdogCycle == servo_ev.step = "cycle" /\ ~servo_ev.cond

\* C18: a control cycle that finds the command older than its watchdog
\* timeout in an active mode leaves the mode Zero-Velocity, and a cycle
\* that finds Zero-Velocity older than the further timeout leaves it
\* Stopped.
C18_WatchdogDegrades ==
  /\ WatchdogCycle /\ servo_ev.was \in ActiveModes
       /\ servo_ev.age + 1 > cmd_timeout
     => servo_mode = "kZeroVelocity"
  /\ WatchdogCycle /\ servo_ev.was = "kZeroVelocity"
       /\ servo_ev.zv + 1 > ZeroVelocityTimeout
     => servo_mode = "kStopped"
  /\ servo_mode \in ActiveModes => cmd_age <= cmd_timeout
  /\ servo_mode = "kZeroVelocity" => zv_age <= ZeroVelocityTimeout

\* the watchdog has run its course: Zero-Velocity, then Stopped
C18_Witness ==
  /\ WatchdogCycle
  /\ servo_ev.was = "kZeroVelocity"
  /\ servo_mode = "kStopped"
  /\ cmd_age > cmd_timeout


(***************************************************************************)
(* Properties of the status slot                                           *)
(***************************************************************************)
\* C19: a reader of an encoder source slot never consumes a torn sample:
\* the value, the flags and the nonce it uses come from one and the same
\* commit.
C19_NoTornSample ==
  rd_pc = "done" => rd_sample.nonce = rd_commit


(***************************************************************************)
(* Properties of hard_fault_handler_c                                      *)
(***************************************************************************)
\* C20: when hard_fault_handler_c is in its infinite loop, the pre-driver
\* enable pin of the board's hardware family (PA_3 on family 0, PC_14 on
\* family 1) is low.
C20_EnableLowInLoop ==
  hf_pc = "loop" => ~PinHigh(g_hw_pins.drv8323_enable)


(***************************************************************************)
(* Properties of mbed_die                                                  *)
(***************************************************************************)
LedToggled == die_ev.level # -1

\* C21: once mbed_die toggles the debug LED, the pre-driver hi-Z and
\* enable pins are low and the TIM2..TIM5 interrupts are disabled; the LED
\* is written 0, then 200 ms later 1, then 200 ms later 0, and so on; no
\* timer interrupt runs after MoteusEnsureOff has completed; and mbed_die
\* never returns to the running firmware.
C21_DieOrder ==
  /\ [](/\ die_pc \in AfterEnsureOff =>
             /\ ~PinHigh(g_hw_pins.drv8323_hiz)
             /\ ~PinHigh(g_hw_pins.drv8323_enable)
             /\ nvic_en \cap TimerIrqs = {}
        /\ LedToggled => die_pc \in AfterEnsureOff
        /\ LedToggled /\ die_ev.first => die_ev.level = 0 /\ die_ev.after = 0
        /\ LedToggled /\ ~die_ev.first => die_ev.after = kLedWaitMs
        /\ die_pc = "wait_off" => ~PinHigh(g_hw_pins.debug_led1)
        /\ die_pc = "wait_on" => PinHigh(g_hw_pins.debug_led1)
        /\ irq_ev.pc \notin AfterEnsureOff)
  /\ [][die_pc # "running" => die_pc' # "running"]_vars

\* mbed_die, entered with the enable pin high and a timer interrupt enabled
\* that has already run, has switched the LED on again.
C21_Witness ==
  /\ die_pc = "wait_on"
  /\ ~die_ev.first
  /\ irq_ev.pc = "MoteusEnsureOff"
  /\ hw_family = 1


(***************************************************************************)
(* Properties of PID                                                       *)
(***************************************************************************)
Applied == pid_ev.call = "Apply"

\* C22: after every PID::Apply with ilimit >= 0 the integral lies in
\* [-ilimit, +ilimit], and when iratelimit > 0 the amount added to the
\* integral before the clamp is at most iratelimit / rate_hz in magnitude.
C22_IntegralBounded ==
  Applied /\ config_.ilimit >= 0 =>
    /\ state_.integral # NaN
    /\ state_.integral <= config_.ilimit
    /\ state_.integral >= 0 - config_.ilimit
    /\ config_.iratelimit > 0 =>
         /\ pid_ev.to_update_i # NaN
         /\ FAbs(pid_ev.to_update_i) * pid_ev.rate_hz <= config_.iratelimit


TorqueLimited == Applied /\ pid_ev.torque # state_.command

\* C23: in a control cycle whose torque command is clamped by the torque
\* limit, the PID integral state is left unchanged.
C23_FrozenWhenLimited ==
  TorqueLimited => state_.integral = pid_ev.before.integral

RateLimiting ==
  /\ Applied
  /\ config_.max_desired_rate # 0
  /\ isfinite(pid_ev.before.desired)

RoundTripped == tm_pc = "current"

IsOkLine(l) == l = TextLine("OK")
IsErrLine(l) == l.kind = "text" /\ l.text \in {"ERR unknown clock"}

\* C26: the reply to every command handled by ClockManager::Command ends
\* with an OK line or an ERR <msg> line.
C26_ReplyTerminated ==
  clk_cmd # NoCommand =>
    /\ Len(clk_reply) >= 1
    /\ \/ IsOkLine(clk_reply[Len(clk_reply)])
       \/ IsErrLine(clk_reply[Len(clk_reply)])


(***************************************************************************)
(* Properties of Stm32G4Flash                                              *)
(***************************************************************************)
Programs(dw) == {i \in 1..Len(flash_log) : flash_log[i].addr = dw}
Touched == {ThisShadow(supplied[i].addr) : i \in 1..Len(supplied)}
SuppliedTo(dw) ==
  {i \in 1..Len(supplied) : ThisShadow(supplied[i].addr) = dw}
Buffered(dw) == shadow_bits_ # ZeroWord /\ shadow_start_ = dw

\* C27: between Unlock and Lock, with bytes given in ascending address
\* order, only 8-byte-aligned double words that were touched are programmed,
\* each at most once and exactly once by the time of Lock; a double word is
\* programmed or buffered, never both; the programmed word holds every
\* supplied byte at its own offset; and after Lock nothing is buffered.
C27_DoubleWordProgram ==
  /\ \A i \in 1..Len(flash_log) :
       /\ flash_log[i].addr % 8 = 0
       /\ flash_log[i].addr \in Touched
  /\ \A dw \in Touched :
       /\ Cardinality(Programs(dw)) <= 1
       /\ Cardinality(Programs(dw)) = 1 <=> ~Buffered(dw)
       /\ \A i \in Programs(dw), j \in SuppliedTo(dw) :
            flash_log[i].data[ShadowOffset(supplied[j].addr)]
              = supplied[j].value
       /\ \A j \in SuppliedTo(dw) :
            Buffered(dw) =>
              shadow_[ShadowOffset(supplied[j].addr)] = supplied[j].value
  /\ flash_locked =>
       /\ shadow_bits_ = ZeroWord
       /\ shadow_ = ZeroWord
       /\ \A dw \in Touched : Cardinality(Programs(dw)) = 1

\* After Lock: the first double word was programmed when a byte of the
\* second arrived, the second, complete, when its eighth byte arrived.
C27_Witness ==
  /\ flash_locked
  /\ Len(flash_log) = 2
  /\ Len(supplied) = 11
  /\ supplied[1].addr = FlashStart + 2
  /\ supplied[4].addr = FlashStart + 8


(***************************************************************************)
(* Properties of MA732                                                     *)
(***************************************************************************)
Configured ==
  /\ ma_regs[kRegFW] = desired_filter(ma_opts.filter_us)
  /\ ma_regs[kRegBCT] = ma_opts.bct

\* C28: MA732::SetConfig returns true exactly when, after the call, the
\* filter-window register (0x0e) and the BCT register (0x01) both hold
\* their desired values.
C28_TrueOnSuccess ==
  ma_ret # "none" => (ma_ret = "true" <=> Configured)


(***************************************************************************)
(* Properties of Stm32GpioInterruptIn                                      *)
(***************************************************************************)
Made == gi_ret # "none"

\* C29: Make returns an empty optional, without faulting, when the EXTI
\* line of the pin's index is already claimed or when all 3 callback-table
\* entries are taken by other (function, data) pairs; otherwise it returns
\* an instance whose callback is registered in the table.
C29_MakeEmptyOrRegistered ==
  Made =>
    IF gi_ev.claimed \/ gi_ev.exhausted
      THEN gi_ret = "empty"
      ELSE /\ gi_ret = "instance"
           /\ gi_ev.entry \in 1..kMaxCallbacks
           /\ entries_[gi_ev.entry].function = gi_ev.function
           /\ entries_[gi_ev.entry].data = gi_ev.data
           /\ entries_[gi_ev.entry].ref_count >= 1
           /\ STM_PIN(gi_ev.pin) \in exti_imr


(***************************************************************************)
(* Properties of the FDCanMicroServer read path                            *)
(***************************************************************************)
Outstanding == rd_issued - rd_done

\* C30: FDCanMicroServer holds at most one outstanding read and completes
\* each AsyncRead at most once: a Poll that receives a frame invokes the
\* saved callback exactly once after clearing the pending callback, header
\* and buffer, so a callback that calls AsyncRead again trips no
\* assertion and its new read stays pending.
C30_OneReadCompletedOnce ==
  /\ ~read_assert
  /\ current_read_header_ = current_read_callback_
  /\ Outstanding = (IF current_read_callback_ THEN 1 ELSE 0)
  /\ Len(read_cb) <= 1
  /\ rd_last \in {"PollFrame", "PollRearm"} => Len(read_cb) = 1
  /\ rd_last = "PollRearm" => current_read_callback_
  /\ rd_last = "PollFrame" => ~current_read_callback_

C30_Witness ==
  /\ rd_last = "PollRearm"
  /\ rd_done = 2
  /\ rd_issued = 3
  /\ current_read_callback_


(***************************************************************************)
(* Properties of the UART encoders' query schedule                         *)
(***************************************************************************)
\* microseconds counted since the encoder was configured
UartOffset(x) == Lo(Sub32(x, t0))
SinceStart == UartOffset(now_us) - UartOffset(last_query_start_us_)
Spacing == UartOffset(last_query_start_us_) - UartOffset(prev_start)
Retiring == {"idle", "timeout", "resync_drop", "commit", "parity_fail"}

\* C31: each UART encoder has at most one query outstanding (a query is
\* started only by an ISR_Update that found none outstanding or retired
\* the outstanding one), and two consecutive queries are never started
\* less than poll_rate_us microseconds apart.
C31_OneQuerySpaced ==
  /\ ev.issued => ev.proc \in Retiring /\ query_outstanding_
  /\ query_outstanding_ => queries >= 1
  /\ queries >= 2 => Spacing >= poll_rate_us

C31_Witness ==
  /\ queries >= 3
  /\ ev.issued /\ ev.proc = "timeout"
  /\ Spacing > 2 * poll_rate_us

C31_WitnessTight ==
  /\ queries >= 2
  /\ ev.issued /\ ev.proc = "commit"
  /\ Spacing = poll_rate_us


Wrapped(from, to) == Hi(from) = 65535 /\ Hi(to) = 0

\* C32: the timeout and poll-interval decisions of an ISR_Update are those
\* the microseconds really elapsed since the start of the latest query
\* call for, also when the 32 bit timer has wrapped since that start: the
\* query times out exactly when more than 2 * poll_rate_us have elapsed,
\* and a new query is started exactly when none is left outstanding and at
\* least poll_rate_us have elapsed.
C32_WrapFreeDecisions ==
  [][(IsrStep /\ queries >= 1) =>
       /\ (ev'.proc = "timeout") <=>
            (query_outstanding_ /\ SinceStart > 2 * poll_rate_us)
       /\ ev'.issued <=>
            (ev'.proc \in Retiring /\ SinceStart >= poll_rate_us)]_vars

\* a query started before the wrap has timed out after it
C32_Witness ==
  /\ queries >= 2
  /\ ev.proc = "timeout" /\ ev.issued
  /\ Wrapped(prev_start, last_query_start_us_)

\* a query started before the wrap was answered, and the next one waited
\* for the poll interval to end after the wrap
C32_WitnessInterval ==
  /\ queries >= 2
  /\ ev.proc = "idle" /\ ev.issued
  /\ Wrapped(prev_start, last_query_start_us_)
  /\ Spacing = poll_rate_us


(***************************************************************************)
(* Properties of the Stm32I2c mode machine                                 *)
(***************************************************************************)
StartCalled == i2c_ev.call \in {"StartReadMemory", "StartWriteMemory"}
I2cTransfer == <<i2c_isr, i2c_start, i2c_rd, i2c_left, i2c_bus, offset_, i2c_size>>
Rejected == StartCalled /\ mode_ = "kError"

C33_WitnessUncollected == Rejected /\ i2c_ev.was = "kComplete"

\* a start rejected by an idle driver because the bus is busy
C33_WitnessBusy == Rejected /\ i2c_ev.was = "kIdle" /\ i2c_isr.busy

\* kError left through CheckRead
C33_WitnessLeft == CheckedError /\ mode_ = "kIdle"


ReadComplete == mode_ = "kComplete" /\ i2c_rd
CheckReadCalled == i2c_ev.call = "CheckRead"
\* the bytes of the transfer, each at its own offset
WholeRead == [k \in 1..i2c_size |-> <<k - 1, k - 1>>]

\* C34: a register read passes through kIdle, kSentRegisterRead,
\* kReadingData and kComplete in that order, stores exactly
\* rx_data.size() received bytes at offsets 0..size-1 and never stores
\* past the buffer; after completion CheckRead returns kComplete exactly
\* once and the driver is kIdle again.
C34_ReadSequence ==
  /\ [](ReadComplete => rx_stores = WholeRead)
  /\ [][/\ Len(rx_stores') > Len(rx_stores) =>
             /\ Len(rx_stores') = Len(rx_stores) + 1
             /\ rx_stores'[Len(rx_stores')][1] \in 0..(i2c_size - 1)
        /\ mode_' = "kSentRegisterRead" =>
             mode_ \in {"kIdle", "kSentRegisterRead"}
        /\ mode_' = "kReadingData" =>
             mode_ \in {"kSentRegisterRead", "kReadingData"}
        /\ ReadComplete' => mode_ \in {"kReadingData", "kComplete"}
        /\ CheckReadCalled' =>
             /\ (i2c_ev'.ret = "kComplete") <=> (mode_ = "kComplete")
             /\ mode_ = "kComplete" => mode_' = "kIdle"
             /\ mode_ = "kIdle" => i2c_ev'.ret = "kNoStatus" /\ mode_' = "kIdle"
     ]_vars

\* a read of two bytes collected by CheckRead
C34_Witness ==
  /\ CheckReadCalled /\ i2c_ev.ret = "kComplete" /\ i2c_ev.was = "kComplete"
  /\ mode_ = "kIdle"
  /\ i2c_rd /\ i2c_size = 2
  /\ rx_stores = <<<<0, 0>>, <<1, 1>>>>


(***************************************************************************)
(* Properties of the Quadrature count                                      *)
(***************************************************************************)
\* C35: after any sequence of software edge callbacks and hardware
\* ISR_Update calls, Quadrature status.value is within [0, cpr).
C35_ValueInRange == q_status.value \in 0..(q_cpr - 1)

\* a hardware update by the most negative delta, on a count of 3
C35_Witness ==
  /\ HwUpdated /\ q_ev.delta = -32768 /\ q_cpr = 3
  /\ q_steps = MaxQuadUpdates

\* a software step down from 0
C35_WitnessCallback ==
  /\ CalledBack /\ q_ev.old_value = 0 /\ q_cpr > 1
  /\ q_status.value = q_cpr - 1


(***************************************************************************)
(* Properties of the Index status                                          *)
(***************************************************************************)
\* the second half of an ISR_Update, which writes the status
IndexWritten == idx_pc = "exchanged" /\ idx_pc' = "idle"

\* C36: Index status.value is true in an ISR_Update exactly when status.raw
\* is true in that update and was false in the previous one, so it is never
\* true in two consecutive updates; when the index source was constructed
\* with an error, ISR_Update changes no status field and active stays
\* false.
C36_ValueIsRisingEdge ==
  /\ [](idx_error => idx_status = NoIndexStatus)
  /\ [][/\ IndexWritten =>
             /\ idx_status'.value = (idx_status'.raw /\ ~idx_status.raw)
             /\ ~(idx_status.value /\ idx_status'.value)
             /\ idx_status'.active
        /\ ~IndexWritten => idx_status' = idx_status]_vars

\* the update after one that gave value = true, with raw still true
C36_Witness ==
  /\ IndexUpdated
  /\ idx_local.old_raw /\ idx_status.raw /\ ~idx_status.value

\* an ISR_Update of a source constructed with an error
C36_WitnessError ==
  /\ idx_error /\ idx_ev.kind = "error"
  /\ idx_pin /\ ~idx_status.active


(***************************************************************************)
(* Properties of the Stm32GpioInterruptIn bookkeeping                      *)
(***************************************************************************)
BoundTo(i) == {inst \in instances : inst.entry = i}
OnLine(line) == {inst \in instances : FindIrqIndex(inst.pin) = line}
OwnedPins == {STM_PIN(inst.pin) : inst \in instances}

\* C37: after any sequence of Make, move-construction, move-assignment and
\* destruction, each callback entry's ref_count is the number of live
\* instances bound to it (the entry being cleared exactly when that is 0),
\* each IRQ line's count is the number of live instances on the line, with
\* the NVIC line enabled iff the count is positive, and an EXTI mask bit
\* is set iff a live instance owns that pin index.
C37_CountsMatchInstances ==
  /\ \A i \in 1..kMaxCallbacks :
       /\ entries_[i].ref_count = Cardinality(BoundTo(i))
       /\ (entries_[i] = EmptyCallback) <=> (BoundTo(i) = {})
  /\ \A line \in 0..(kIrqLines - 1) :
       /\ irq_count[line] = Cardinality(OnLine(line))
       /\ (line \in exti_nvic) <=> (irq_count[line] > 0)
  /\ exti_imr = OwnedPins


(***************************************************************************)
(* Properties of CalculateI2cTiming                                        *)
(***************************************************************************)
TimingFound == tim_pc = "returned" /\ tim_result.error = 0
t_presc == PicosPerCycle(tim_in.peripheral_hz) * (tim_result.prescaler + 1)
SclLow == (tim_result.scll + 1) * t_presc
SclHigh == (tim_result.sclh + 1) * t_presc
DataSetup == (tim_result.scldel + 1) * t_presc
\* the period of a rate in picoseconds, rounded up
PeriodOf(hz) == (1000000000 + (hz \div 1000) - 1) \div (hz \div 1000)
RequestedHz ==
  IF tim_in.i2c_hz < i2c_max_hz(tim_in.i2c_mode)
    THEN tim_in.i2c_hz ELSE i2c_max_hz(tim_in.i2c_mode)

\* C38: whenever CalculateI2cTiming reports error = 0, the programmed SCL
\* low time, SCL high time and data setup time are each at least the
\* minimum of the selected mode, scll and sclh are at most 255, sdadel and
\* scldel at most 15, and the SCL period is not shorter than the period
\* of min(i2c_hz, the mode's maximum frequency).
C38_TimingMeetsMinimums ==
  TimingFound =>
    /\ SclLow >= scl_min_low_ps(tim_in.i2c_mode)
    /\ SclHigh >= scl_min_high_ps(tim_in.i2c_mode)
    /\ DataSetup >= data_min_setup_ps(tim_in.i2c_mode)
    /\ tim_result.scll \in 0..255 /\ tim_result.sclh \in 0..255
    /\ tim_result.sdadel \in 0..15 /\ tim_result.scldel \in 0..15
    /\ tim_result.prescaler \in 0..(kPrescalers - 1)
    /\ SclLow + SclHigh >= PeriodOf(RequestedHz)

\* a rate above the maximum of the mode, found with a prescaler above 0
C38_Witness ==
  /\ TimingFound
  /\ tim_in.i2c_hz > i2c_max_hz(tim_in.i2c_mode)
  /\ tim_result.prescaler > 0


(***************************************************************************)
(* Properties of AuxADC                                                    *)
(***************************************************************************)
AuxIsrStep == aux_ev' # aux_ev /\ aux_ev'.isr # "none"
\* the ADCs and ranks the ISR would sample in this state
Ranks ==
  {s \in (0..(kMaxAdcs - 1)) \X AuxPins : s[2] < adc_configs_[s[1]].num_channels}

\* C39: any_adc_ is false from the first to the last step of UpdateConfig,
\* so an ISR_StartSample or ISR_EndSample that preempts it starts no
\* conversion and dereferences no result_store pointer; and whenever
\* any_adc_ is true, every result_store[j] with j < num_channels points at
\* the value slot of the pin whose channel is programmed at injected rank
\* j + 1 of that ADC.
C39_QuiescentWhileReconfiguring ==
  /\ [](InUpdateConfig => ~any_adc_)
  /\ [](any_adc_ =>
          \A s \in Ranks :
            /\ s[2] < kMaxInjected
            /\ StoreOf(s) # NullStore
            /\ jsqr[s[1]].jsq[s[2] + 1] = PinChannel(StoreOf(s)))
  /\ [][(AuxIsrStep /\ InUpdateConfig) =>
          aux_ev'.started = {} /\ aux_ev'.deref = {}]_vars

\* an ISR_EndSample preempts the second reconfiguration, which began with
\* two ADCs sampling, after the first result_store of the new configuration
\* was written
C39_Witness ==
  /\ aux_updates = 2
  /\ aux_pc.at = "count"
  /\ aux_ev.isr = "end" /\ aux_ev.during
  /\ \E s \in Ranks : StoreOf(s) # NullStore

\* sampling is on with two pins on one ADC, the pin at rank 2 not pin 1
C39_WitnessSampling ==
  /\ any_adc_
  /\ aux_ev.isr = "end" /\ aux_ev.deref # {}
  /\ \E a \in 0..(kMaxAdcs - 1) :
       /\ adc_configs_[a].num_channels >= 2
       /\ adc_configs_[a].result_store[1][2] # 1


====
